---- MODULE Spec2Model ----
(***************************************************************************)
(* A model of service-spoof's TLS ClientHello capture and JA4 fingerprint  *)
(* engine:                                                                 *)
(*   - the raw-byte parser ParseJA4 (package fingerprint),                 *)
(*   - the per-connection stream assembler TlsClientHelloConn (package     *)
(*     middleware).                                                        *)
(*                                                                         *)
(* Conventions.  A byte is a number 0..255, a []byte a sequence of bytes.  *)
(* The code's offsets are 0-based: the byte the code calls payload[i] is   *)
(* payload[i+1] here, and ByteAt does that shift.  A Go string is a TLA+   *)
(* string, built with \o.  SHA-256 is modelled as an injective rendering   *)
(* of its input (no collisions): ComputeTruncatedSHA256.                   *)
(*                                                                         *)
(* A Go slice expression payload[a:b] is legal up to the CAPACITY of       *)
(* payload, not its length.  ParseJA4 is therefore given, besides the      *)
(* payload, the bytes that lie behind it in its backing array (slack):     *)
(* a slice that ends inside the slack reads those bytes, a slice that ends *)
(* behind the slack panics.                                                *)
(***************************************************************************)
EXTENDS Integers, Sequences, FiniteSets, TLC

(***************************************************************************)
(* Rendering of characters and numbers (fmt verbs %c, %02d, %04x, %d).     *)
(***************************************************************************)

HexDigit ==
  <<"0", "1", "2", "3", "4", "5", "6", "7", "8", "9", "a", "b", "c", "d", "e", "f">>

AsciiPrintable ==
  << " ", "!", "<U+0022>", "#", "$", "%", "&", "'", "(", ")", "*", "+", ",", "-", ".", "/",
     "0", "1", "2", "3", "4", "5", "6", "7", "8", "9", ":", ";", "<", "=", ">", "?",
     "@", "A", "B", "C", "D", "E", "F", "G", "H", "I", "J", "K", "L", "M", "N", "O",
     "P", "Q", "R", "S", "T", "U", "V", "W", "X", "Y", "Z", "[", "<U+005c>", "]", "^", "_",
     "<U+0060>", "a", "b", "c", "d", "e", "f", "g", "h", "i", "j", "k", "l", "m", "n", "o",
     "p", "q", "r", "s", "t", "u", "v", "w", "x", "y", "z", "{", "|", "}", "~" >>

\* %c of rune(b) for a byte b: the character itself for printable ASCII, and a
\* token naming the code point for the others (and for the quote, the
\* backslash and the backquote, which are awkward inside a TLA+ string).
Chr(b) ==
  IF b >= 32 /\ b <= 126 THEN AsciiPrintable[b - 31]
  ELSE "<U+00" \o HexDigit[(b \div 16) + 1] \o HexDigit[(b % 16) + 1] \o ">"

\* the byte b as it stands in a Go string, unconverted: for b < 0x80 the same
\* as %c of rune(b); a byte from 0x80 on is no UTF-8 by itself, and a token
\* names it
RawByte(b) ==
  IF b < 128 THEN Chr(b)
  ELSE "<0x" \o HexDigit[(b \div 16) + 1] \o HexDigit[(b % 16) + 1] \o ">"

\* %04x of a uint16
Hex4(v) ==
  HexDigit[((v \div 4096) % 16) + 1] \o HexDigit[((v \div 256) % 16) + 1]
    \o HexDigit[((v \div 16) % 16) + 1] \o HexDigit[(v % 16) + 1]

RECURSIVE Itoa(_)
\* %d of a non-negative int
Itoa(n) == IF n < 10 THEN HexDigit[n + 1] ELSE Itoa(n \div 10) \o HexDigit[(n % 10) + 1]

\* %02d of a non-negative int
Dec2(n) == IF n < 10 THEN "0" \o Itoa(n) ELSE Itoa(n)

(***************************************************************************)
(* package fingerprint: helpers of ParseJA4                                *)
(***************************************************************************)

\* A plausible slip in the GREASE test: the two nibble masks are checked but the
\* comparison constant covers only the low byte, so only 0x0a0a passes.
IsGreaseValue_OnlyFirst(val) == val = 2570

IsGreaseValue(val) ==
  LET highByte == (val \div 256) % 256
      lowByte  == val % 256
  IN  (highByte % 16 = 10) /\ (lowByte % 16 = 10) /\ highByte = lowByte

\* unicode.IsLetter(rune(b)) || unicode.IsDigit(rune(b)) on the Latin-1 range
IsAlnum(b) ==
  \/ (b >= 48 /\ b <= 57)
  \/ (b >= 65 /\ b <= 90)
  \/ (b >= 97 /\ b <= 122)
  \/ b \in {170, 181, 186}
  \/ (b >= 192 /\ b <= 214)
  \/ (b >= 216 /\ b <= 246)
  \/ (b >= 248 /\ b <= 255)

MapTLSVersion(version) ==
  CASE version = 772   -> "13"
    [] version = 771   -> "12"
    [] version = 770   -> "11"
    [] version = 769   -> "10"
    [] version = 768   -> "s3"
    [] version = 2     -> "s2"
    [] version = 65277 -> "d2"
    [] version = 65279 -> "d1"
    [] version = 65276 -> "d3"
    [] OTHER           -> "00"

RECURSIVE BuildHexList(_)
\* strings.Join of the %04x strings with ","; the list is joined half by half
BuildHexList(values) ==
  IF Len(values) = 0 THEN ""
  ELSE IF Len(values) = 1 THEN Hex4(values[1])
  ELSE BuildHexList(SubSeq(values, 1, Len(values) \div 2)) \o ","
         \o BuildHexList(SubSeq(values, (Len(values) \div 2) + 1, Len(values)))

\* fmt.Sprintf("%x", sha256(data)[:6]): modelled as a collision-free rendering of
\* the hashed string.
ComputeTruncatedSHA256(data) == "sha256[:6](" \o data \o ")"

\* the place of s[i] in ascending order; equal values keep their order
PlaceAscending(s, i) ==
  Cardinality({ j \in 1..Len(s) : s[j] < s[i] \/ (s[j] = s[i] /\ j < i) }) + 1

\* s with every element moved to its place; places holds, for every index i of
\* s, the pair of the place of s[i] and i
Placed(s, places) == [k \in 1..Len(s) |-> s[(CHOOSE p \in places : p[1] = k)[2]]]

\* A plausible slip: the sort of a code list is forgotten.
SortAscending_Unsorted(s) == s

\* sort.Slice(s, func(i, j) bool { return s[i] < s[j] })
SortAscending(s) == Placed(s, { <<PlaceAscending(s, i), i>> : i \in 1..Len(s) })

\* payload[i] as the code indexes it (0-based); an index behind the payload is a
\* byte of the backing array.
ByteAt(payload, slack, i) ==
  IF i < Len(payload) THEN payload[i + 1] ELSE slack[i - Len(payload) + 1]

\* binary.BigEndian.Uint16(payload[off : off+2])
Uint16At(payload, slack, off) ==
  ByteAt(payload, slack, off) * 256 + ByteAt(payload, slack, off + 1)

\* payload[lo:hi] is legal iff hi <= cap(payload)
SliceInCap(payload, slack, hi) == hi <= Len(payload) + Len(slack)

(***************************************************************************)
(* package fingerprint: ParseJA4                                           *)
(*                                                                         *)
(* A result is [kind, str, overread]: kind "ok" with the fingerprint,      *)
(* "err" with the error text, or "panic" (a slice behind the capacity);    *)
(* overread tells that a slice of the run ended behind the payload.        *)
(***************************************************************************)

ParseError(msg, over) == [kind |-> "err", str |-> msg, overread |-> over]

ParsePanic == [kind |-> "panic", str |-> "", overread |-> TRUE]

\* The least k with 2^k >= n: a loop of at most n passes is over after 2^k.
Doublings(n) == CHOOSE k \in 0..24 : 2^k >= n /\ \A j \in 0..(k - 1) : 2^j < n

\* One pass of the cipher-suites loop over its variables ls = [i, panic, codes];
\* a pass after the loop's end (i >= cipherSuitesLen, or a panic) changes nothing.
CipherSuitesPass(payload, slack, offset, cipherSuitesLen, ls) ==
  IF ls.panic \/ ls.i >= cipherSuitesLen THEN ls
  ELSE IF ~SliceInCap(payload, slack, offset + ls.i + 2)
       THEN [ls EXCEPT !.panic = TRUE]
  ELSE [i     |-> ls.i + 2,
        panic |-> FALSE,
        codes |-> IF IsGreaseValue(Uint16At(payload, slack, offset + ls.i))
                  THEN ls.codes
                  ELSE Append(ls.codes, Uint16At(payload, slack, offset + ls.i))]

RECURSIVE CipherSuitesPasses(_, _, _, _, _, _)
\* 2^k passes of the loop: 2^(k-1) passes, then 2^(k-1) more from the variables
\* mid they left (the one element of the set written below)
CipherSuitesPasses(payload, slack, offset, cipherSuitesLen, ls, k) ==
  IF k = 0 THEN CipherSuitesPass(payload, slack, offset, cipherSuitesLen, ls)
  ELSE CHOOSE after \in
         { CipherSuitesPasses(payload, slack, offset, cipherSuitesLen, mid, k - 1) :
             mid \in {CipherSuitesPasses(payload, slack, offset, cipherSuitesLen,
                                         ls, k - 1)} } : TRUE

\* what the loop leaves: whether it panicked, and the ciphers collected
CipherSuitesRead(ls) == [panic |-> ls.panic, codes |-> ls.codes]

\* for i := 0; i < cipherSuitesLen; i += 2 { cipher := Uint16(payload[offset+i : offset+i+2]) ... }
ReadCipherSuites(payload, slack, offset, i, cipherSuitesLen, ciphers) ==
  CipherSuitesRead(
    CipherSuitesPasses(payload, slack, offset, cipherSuitesLen,
                       [i |-> i, panic |-> FALSE, codes |-> ciphers],
                       Doublings(cipherSuitesLen + 1)))

\* The ALPN_EXT block, entered for extType == 0x0010 && extLen > 0.  alpn is the
\* byte string of the variable alpn ("00", "99" or the first protocol name).
ParseALPN(payload, offset, extDataEnd, alpn) ==
  IF offset + 2 > extDataEnd
  THEN [err |-> "payload too short for ALPN list length", alpn |-> alpn]
  ELSE
    LET alpnListLen == Uint16At(payload, <<>>, offset)
        alpnOffset  == offset + 2
    IN
    IF alpnOffset + alpnListLen > extDataEnd
    THEN [err |-> "incomplete ALPN list", alpn |-> alpn]
    ELSE IF alpnListLen = 0 THEN [err |-> "", alpn |-> alpn]
    ELSE IF alpnOffset + 1 > extDataEnd
    THEN [err |-> "payload too short for ALPN string length", alpn |-> alpn]
    ELSE
      LET alpnStrLen == ByteAt(payload, <<>>, alpnOffset)
          strOffset  == alpnOffset + 1
      IN
      IF strOffset + alpnStrLen > extDataEnd
      THEN [err |-> "incomplete ALPN string", alpn |-> alpn]
      ELSE IF alpnStrLen = 0 THEN [err |-> "", alpn |-> alpn]
      ELSE
        LET alpnValue == SubSeq(payload, strOffset + 1, strOffset + alpnStrLen)
        IN  [err |-> "",
             alpn |-> IF ~IsAlnum(alpnValue[1]) THEN <<57, 57>> ELSE alpnValue]

\* A plausible slip: the signature-algorithm codes are sorted like the other
\* two lists.
ReadSignatureAlgorithms_Sorted(payload, slack, sigOffset, j, sigAlgsLen, sigs) ==
  [panic |-> FALSE,
   codes |-> SortAscending(
               sigs \o SelectSeq([k \in 1..(sigAlgsLen \div 2) |->
                                    Uint16At(payload, slack, sigOffset + 2 * (k - 1))],
                                 LAMBDA c : ~IsGreaseValue(c)))]

RECURSIVE ReadSignatureAlgorithms(_, _, _, _, _, _)
\* for j := 0; j < sigAlgsLen; j += 2 { sigAlgo := Uint16(payload[sigOffset+j : sigOffset+j+2]) ... }
ReadSignatureAlgorithms(payload, slack, sigOffset, j, sigAlgsLen, sigs) ==
  IF j >= sigAlgsLen THEN [panic |-> FALSE, codes |-> sigs]
  ELSE IF ~SliceInCap(payload, slack, sigOffset + j + 2)
       THEN [panic |-> TRUE, codes |-> sigs]
  ELSE LET sigAlgo == Uint16At(payload, slack, sigOffset + j)
       IN  ReadSignatureAlgorithms(payload, slack, sigOffset, j + 2, sigAlgsLen,
             IF IsGreaseValue(sigAlgo) THEN sigs ELSE Append(sigs, sigAlgo))

\* what the signature-algorithms loop leaves: r from ReadSignatureAlgorithms, over
\* whether its last slice ended behind the payload
SigAlgsRead(r, over) == [err |-> "", panic |-> r.panic, sigs |-> r.codes, over |-> over]

\* The SIGNATURE_ALGORITHMS_EXT block, entered for extType == 0x000d.
ParseSignatureAlgorithms(payload, slack, offset, extDataEnd, sigs) ==
  IF offset + 2 > extDataEnd
  THEN [err |-> "payload too short for signature algorithms length",
        panic |-> FALSE, sigs |-> sigs, over |-> FALSE]
  ELSE
    LET sigAlgsLen == Uint16At(payload, <<>>, offset)
        sigOffset  == offset + 2
    IN
    IF sigOffset + sigAlgsLen > extDataEnd
    THEN [err |-> "incomplete signature algorithms data",
          panic |-> FALSE, sigs |-> sigs, over |-> FALSE]
    ELSE SigAlgsRead(ReadSignatureAlgorithms(payload, slack, sigOffset, 0, sigAlgsLen, sigs),
                     sigOffset + sigAlgsLen + (sigAlgsLen % 2) > Len(payload))

RECURSIVE ReadSupportedVersions(_, _, _, _, _, _)
\* for j := 0; j < svLen; j += 2 { if svOffset+j+1 >= extDataEnd { break } ... }
ReadSupportedVersions(payload, svOffset, j, svLen, extDataEnd, highest) ==
  IF j >= svLen THEN highest
  ELSE IF svOffset + j + 1 >= extDataEnd THEN highest
  ELSE LET version == Uint16At(payload, <<>>, svOffset + j)
       IN  ReadSupportedVersions(payload, svOffset, j + 2, svLen, extDataEnd,
             IF ~IsGreaseValue(version) /\ version > highest THEN version ELSE highest)

\* The SUPPORTED_VERSIONS_EXT block, entered for extType == 0x002b.
ParseSupportedVersions(payload, offset, extDataEnd, highest) ==
  IF offset + 1 > extDataEnd
  THEN [err |-> "payload too short for supported versions length", highest |-> highest]
  ELSE
    LET svLen    == ByteAt(payload, <<>>, offset)
        svOffset == offset + 1
    IN
    IF svOffset + svLen > extDataEnd
    THEN [err |-> "incomplete supported versions data", highest |-> highest]
    ELSE [err |-> "",
          highest |-> ReadSupportedVersions(payload, svOffset, 0, svLen, extDataEnd, highest)]

\* if offset+extLen > extensionsEnd || offset+extLen > len(payload) { break }
ExtensionOverruns(offset, extLen, extensionsEnd, payloadLen) ==
  offset + extLen > extensionsEnd \/ offset + extLen > payloadLen

\* ExtensionDecoded with the type code appended for SNI and ALPN too
ExtensionDecoded_ListsSniAlpn(st, extType, extDataEnd, a, s, v) ==
  IF a.err # "" THEN [st EXCEPT !.err = a.err]
  ELSE IF s.err # "" THEN [st EXCEPT !.err = s.err]
  ELSE IF s.panic THEN [st EXCEPT !.panic = TRUE, !.over = TRUE]
  ELSE IF v.err # "" THEN [st EXCEPT !.err = v.err]
  ELSE [st EXCEPT !.offset     = extDataEnd,
                  !.extensions = Append(st.extensions, extType),
                  !.count      = st.count + 1,
                  !.sniFound   = st.sniFound \/ extType = 0,
                  !.alpn       = a.alpn,
                  !.sigs       = s.sigs,
                  !.supportedVersionsFound  = st.supportedVersionsFound \/ extType = 43,
                  !.highestSupportedVersion = v.highest,
                  !.over       = st.over \/ s.over]

\* The loop's variables after one extension that is not GREASE: a, s, v are what
\* the ALPN, signature_algorithms and supported_versions blocks gave.  err: the
\* function returned an error; panic: a slice ended behind the capacity.
ExtensionDecoded(st, extType, extDataEnd, a, s, v) ==
  IF a.err # "" THEN [st EXCEPT !.err = a.err]
  ELSE IF s.err # "" THEN [st EXCEPT !.err = s.err]
  ELSE IF s.panic THEN [st EXCEPT !.panic = TRUE, !.over = TRUE]
  ELSE IF v.err # "" THEN [st EXCEPT !.err = v.err]
  ELSE [offset     |-> extDataEnd,
        extensions |-> IF extType # 0 /\ extType # 16
                       THEN Append(st.extensions, extType) ELSE st.extensions,
        count      |-> st.count + 1,
        sniFound   |-> st.sniFound \/ extType = 0,
        alpn       |-> a.alpn,
        sigs       |-> s.sigs,
        supportedVersionsFound  |-> st.supportedVersionsFound \/ extType = 43,
        highestSupportedVersion |-> v.highest,
        err   |-> "",
        panic |-> FALSE,
        over  |-> st.over \/ s.over,
        done  |-> FALSE]

\* One extension that is not GREASE, whose data is payload[offset : extDataEnd].
DecodeExtension(payload, slack, st, extType, extLen, offset, extDataEnd) ==
  ExtensionDecoded(st, extType, extDataEnd,
    IF extType = 16 /\ extLen > 0
    THEN ParseALPN(payload, offset, extDataEnd, st.alpn)
    ELSE [err |-> "", alpn |-> st.alpn],
    IF extType = 13
    THEN ParseSignatureAlgorithms(payload, slack, offset, extDataEnd, st.sigs)
    ELSE [err |-> "", panic |-> FALSE, sigs |-> st.sigs, over |-> FALSE],
    IF extType = 43
    THEN ParseSupportedVersions(payload, offset, extDataEnd, st.highestSupportedVersion)
    ELSE [err |-> "", highest |-> st.highestSupportedVersion])

\* One pass of the extensions loop.  st holds the loop's variables: offset,
\* extensions, extensionCountWithSNI_ALPN (count), sniFound, alpn,
\* signatureAlgorithms (sigs), supportedVersionsFound, highestSupportedVersion, and
\* how the loop ended (err: an early return with an error; panic; over: a slice
\* ended behind the payload; done: the loop condition failed or the break was
\* taken).  A pass after the loop's end changes nothing.
ExtensionsPass(payload, slack, extensionsEnd, st) ==
  IF st.done \/ st.err # "" \/ st.panic THEN st
  ELSE IF ~(st.offset + 4 <= extensionsEnd /\ st.offset + 4 <= Len(payload))
  THEN [st EXCEPT !.done = TRUE]
  ELSE
    LET extType == Uint16At(payload, <<>>, st.offset)
        extLen  == Uint16At(payload, <<>>, st.offset + 2)
        offset  == st.offset + 4
    IN
    IF ExtensionOverruns(offset, extLen, extensionsEnd, Len(payload))
    THEN [st EXCEPT !.offset = offset, !.done = TRUE]
    ELSE IF IsGreaseValue(extType)
    THEN [st EXCEPT !.offset = offset + extLen]
    ELSE DecodeExtension(payload, slack, st, extType, extLen, offset, offset + extLen)

RECURSIVE ExtensionsPasses(_, _, _, _, _)
\* 2^k passes of the loop: 2^(k-1) passes, then 2^(k-1) more from the variables
\* mid they left (the one element of the set written below)
ExtensionsPasses(payload, slack, extensionsEnd, st, k) ==
  IF k = 0 THEN ExtensionsPass(payload, slack, extensionsEnd, st)
  ELSE CHOOSE after \in
         { ExtensionsPasses(payload, slack, extensionsEnd, mid, k - 1) :
             mid \in {ExtensionsPasses(payload, slack, extensionsEnd, st, k - 1)} } : TRUE

\* The extensions loop: every pass takes at least the four bytes of a header, so
\* after len(payload) passes it is over.
ParseExtensions(payload, slack, extensionsEnd, st) ==
  ExtensionsPasses(payload, slack, extensionsEnd, st, Doublings(Len(payload)))

\* cipherCountDisplay / totalExtensionCount: the count capped at 99
CountDisplay(count) == IF count > 99 THEN 99 ELSE count

\* The fingerprint string built from the decoded values (from "Start building the
\* JA4 fingerprint" and "Determine TLS Version" to the return).
BuildJA4(protocol, clientVersion, ciphers, st) ==
  LET tlsVersion == IF st.supportedVersionsFound
                    THEN MapTLSVersion(st.highestSupportedVersion)
                    ELSE MapTLSVersion(clientVersion)
      sniIndicator  == IF st.sniFound THEN "d" ELSE "i"
      alpnFirstChar == IF Len(st.alpn) > 0 THEN Chr(st.alpn[1]) ELSE "0"
      alpnLastChar  == IF Len(st.alpn) > 0 THEN Chr(st.alpn[Len(st.alpn)]) ELSE "0"
      sortedCiphers == SortAscending(ciphers)
      ja4b == IF Len(ciphers) = 0 THEN "000000000000"
              ELSE ComputeTruncatedSHA256(BuildHexList(sortedCiphers))
      sortedExtensions == SortAscending(st.extensions)
      extStr == IF Len(st.sigs) > 0
                THEN BuildHexList(sortedExtensions) \o "_" \o BuildHexList(st.sigs)
                ELSE BuildHexList(sortedExtensions)
      ja4c == IF Len(st.extensions) = 0 THEN "000000000000"
              ELSE ComputeTruncatedSHA256(extStr)
  IN  Chr(protocol) \o tlsVersion \o sniIndicator
        \o Dec2(CountDisplay(Len(ciphers))) \o Dec2(CountDisplay(st.count))
        \o alpnFirstChar \o alpnLastChar \o "_" \o ja4b \o "_" \o ja4c

\* The pieces BuildJA4 joins, and the decoded lists they are made from:
\* version, sni, cipherCount, extCount and alpn are the fields of Part A, partB
\* and partC the two hashes, extStr the input of Part C's hash, ciphers and
\* extensions the sorted code lists that are rendered for hashing.
JA4Parts(clientVersion, ciphers, st) ==
  [version     |-> IF st.supportedVersionsFound
                   THEN MapTLSVersion(st.highestSupportedVersion)
                   ELSE MapTLSVersion(clientVersion),
   sni         |-> IF st.sniFound THEN "d" ELSE "i",
   cipherCount |-> Dec2(CountDisplay(Len(ciphers))),
   extCount    |-> Dec2(CountDisplay(st.count)),
   alpn        |-> IF Len(st.alpn) > 0
                   THEN Chr(st.alpn[1]) \o Chr(st.alpn[Len(st.alpn)]) ELSE "00",
   partB       |-> IF Len(ciphers) = 0 THEN "000000000000"
                   ELSE ComputeTruncatedSHA256(BuildHexList(SortAscending(ciphers))),
   extStr      |-> IF Len(st.sigs) > 0
                   THEN BuildHexList(SortAscending(st.extensions)) \o "_"
                          \o BuildHexList(st.sigs)
                   ELSE BuildHexList(SortAscending(st.extensions)),
   partC       |-> IF Len(st.extensions) = 0 THEN "000000000000"
                   ELSE ComputeTruncatedSHA256(
                          IF Len(st.sigs) > 0
                          THEN BuildHexList(SortAscending(st.extensions)) \o "_"
                                 \o BuildHexList(st.sigs)
                          ELSE BuildHexList(SortAscending(st.extensions))),
   ciphers     |-> SortAscending(ciphers),
   extensions  |-> SortAscending(st.extensions),
   sigs        |-> st.sigs,
   count       |-> st.count]

\* The fingerprint string of the pieces p: Part A, "_", Part B, "_", Part C.
JoinParts(protocol, p) ==
  Chr(protocol) \o p.version \o p.sni \o p.cipherCount \o p.extCount \o p.alpn
    \o "_" \o p.partB \o "_" \o p.partC

\* What ParseJA4 gives once the extensions loop has ended with st.
ParseResult(protocol, clientVersion, ciphers, st) ==
  IF st.panic THEN ParsePanic
  ELSE IF st.err # "" THEN ParseError(st.err, st.over)
  ELSE [kind |-> "ok",
        str  |-> BuildJA4(protocol, clientVersion, ciphers, st),
        overread |-> st.over,
        parts |-> JA4Parts(clientVersion, ciphers, st)]

\* ParseJA4 from the compression methods on; r is what the cipher-suites loop
\* gave, offset0 the offset behind the list.
ParseAfterCiphers(payload, slack, protocol, clientVersion, r, offset0, over) ==
  IF r.panic THEN ParsePanic
  ELSE IF offset0 + 1 > Len(payload)
  THEN ParseError("payload too short for compression methods length", over)
  ELSE
    LET compressionMethodsLen == ByteAt(payload, <<>>, offset0)
        offset1 == offset0 + 1 + compressionMethodsLen
    IN
    IF offset1 + 2 > Len(payload)
    THEN ParseError("payload too short for extensions length", over)
    ELSE
      LET extensionsLen == Uint16At(payload, <<>>, offset1)
          offset2       == offset1 + 2
      IN  ParseResult(protocol, clientVersion, r.codes,
            ParseExtensions(payload, slack, offset2 + extensionsLen,
              [offset     |-> offset2,
               extensions |-> <<>>,
               count      |-> 0,
               sniFound   |-> FALSE,
               alpn       |-> <<48, 48>>,
               sigs       |-> <<>>,
               supportedVersionsFound  |-> FALSE,
               highestSupportedVersion |-> 0,
               err   |-> "",
               panic |-> FALSE,
               over  |-> over,
               done  |-> FALSE]))

\* ParseJA4(payload, protocol), with the bytes behind the payload in its backing
\* array.
ParseJA4(payload, slack, protocol) ==
  IF 5 + 4 > Len(payload) THEN ParseError("payload too short", FALSE)
  ELSE
    LET handshakeType   == ByteAt(payload, <<>>, 5)
        handshakeLength == ByteAt(payload, <<>>, 6) * 65536
                             + ByteAt(payload, <<>>, 7) * 256 + ByteAt(payload, <<>>, 8)
    IN
    IF handshakeType # 1 THEN ParseError("not a Client Hello message", FALSE)
    ELSE IF 9 + handshakeLength > Len(payload)
    THEN ParseError("imcomplete Client Hello message, payload length: "
                      \o Itoa(Len(payload)) \o ", handshake length + offset: "
                      \o Itoa(9 + handshakeLength), FALSE)
    ELSE IF 9 + 2 > Len(payload)
    THEN ParseError("payload too short for client version", FALSE)
    ELSE
      LET clientVersion == Uint16At(payload, <<>>, 9) IN
      IF 11 + 32 > Len(payload)
      THEN ParseError("payload too short for server random", FALSE)
      ELSE IF 43 + 1 > Len(payload)
      THEN ParseError("payload too short for session ID length", FALSE)
      ELSE
        LET sessionIDLen == ByteAt(payload, <<>>, 43)
            offsetCS     == 43 + 1 + sessionIDLen
        IN
        IF offsetCS + 2 > Len(payload)
        THEN ParseError("payload too short for cipher suites length", FALSE)
        ELSE
          LET cipherSuitesLen == Uint16At(payload, <<>>, offsetCS)
              offset          == offsetCS + 2
          IN
          IF offset + cipherSuitesLen > Len(payload)
          THEN ParseError("incomplete cipher suites data", FALSE)
          ELSE
            ParseAfterCiphers(payload, slack, protocol, clientVersion,
              ReadCipherSuites(payload, slack, offset, 0, cipherSuitesLen, <<>>),
              offset + cipherSuitesLen,
              offset + cipherSuitesLen + (cipherSuitesLen % 2) > Len(payload))

(***************************************************************************)
(* package fingerprint: the ClientHelloInfo-based generator (ja4.go)       *)
(***************************************************************************)

\* var greaseValues: the 16 values 0x0A0A, 0x1A1A, ..., 0xFAFA
greaseValues == { 2570 + 4112 * k : k \in 0..15 }

filterGREASE(values) == SelectSeq(values, LAMBDA v : v \notin greaseValues)

\* the four hex digits of fmt.Sprintf("%04x", c), as numbers: what sort.Strings
\* compares
HexDigitsOf(c) == <<(c \div 4096) % 16, (c \div 256) % 16, (c \div 16) % 16, c % 16>>

\* string order of two 4-digit hex strings
HexStringLess(x, y) ==
  \E i \in 1..4 : /\ \A j \in 1..(i - 1) : HexDigitsOf(x)[j] = HexDigitsOf(y)[j]
                  /\ HexDigitsOf(x)[i] < HexDigitsOf(y)[i]

\* the place of the string of codes[i] in string order; equal strings keep
\* their order
PlaceOfHexString(codes, i) ==
  Cardinality({ j \in 1..Len(codes) :
                  HexStringLess(codes[j], codes[i]) \/ (codes[j] = codes[i] /\ j < i) }) + 1

\* sort.Strings(hexCiphers), on the codes the strings render
SortHexStrings(codes) ==
  Placed(codes, { <<PlaceOfHexString(codes, i), i>> : i \in 1..Len(codes) })

\* truncatedSHA256: the first 12 hex characters of the hash, the same string as
\* ComputeTruncatedSHA256 gives; "000000000000" for the empty input
truncatedSHA256(input) ==
  IF input = "" THEN "000000000000" ELSE "sha256[:6](" \o input \o ")"

\* hashCiphers: Part B from the GREASE-filtered cipher list
hashCiphers(ciphers) ==
  IF Len(ciphers) = 0 THEN "000000000000"
  ELSE truncatedSHA256(BuildHexList(SortHexStrings(ciphers)))

\* GenerateJA4's argument when it is nil
NilClientHelloInfo == [isNil |-> TRUE]

\* case 0x0304 ... default of mapTLSVersion
mapTLSVersion(version) ==
  CASE version = 772   -> "13"
    [] version = 771   -> "12"
    [] version = 770   -> "11"
    [] version = 769   -> "10"
    [] version = 768   -> "s3"
    [] version = 65279 -> "d1"
    [] version = 65277 -> "d2"
    [] OTHER           -> "00"

\* the first GREASE-filtered entry of SupportedVersions, "13" without one
getTLSVersion(hello) ==
  IF Len(hello.SupportedVersions) > 0 /\ Len(filterGREASE(hello.SupportedVersions)) > 0
  THEN mapTLSVersion(filterGREASE(hello.SupportedVersions)[1])
  ELSE "13"

\* a decimal number 0..255 without sign and without leading zero, as the
\* dotted-quad fields net.ParseIP accepts
IsIPv4Field(f) ==
  /\ Len(f) \in 1..3
  /\ \A i \in 1..Len(f) : f[i] >= 48 /\ f[i] <= 57
  /\ (Len(f) > 1 => f[1] # 48)
  /\ (Len(f) = 3 => (f[1] - 48) * 100 + (f[2] - 48) * 10 + (f[3] - 48) <= 255)

\* netip's parseIPv4 accepts name: four fields separated by three dots
IsIPv4Literal(name) ==
  \E a, b, c \in 1..Len(name) :
    /\ a < b /\ b < c
    /\ { i \in 1..Len(name) : name[i] = 46 } = {a, b, c}
    /\ IsIPv4Field(SubSeq(name, 1, a - 1))
    /\ IsIPv4Field(SubSeq(name, a + 1, b - 1))
    /\ IsIPv4Field(SubSeq(name, b + 1, c - 1))
    /\ IsIPv4Field(SubSeq(name, c + 1, Len(name)))

\* '0'..'9', 'a'..'f', 'A'..'F'
IsHexDigit(c) ==
  (c >= 48 /\ c <= 57) \/ (c >= 97 /\ c <= 102) \/ (c >= 65 /\ c <= 70)

\* the number of hex digits s starts with
HexRun(s) ==
  IF \A i \in 1..Len(s) : IsHexDigit(s[i]) THEN Len(s)
  ELSE (CHOOSE i \in 1..Len(s) :
          ~IsHexDigit(s[i]) /\ \A j \in 1..(i - 1) : IsHexDigit(s[j])) - 1

\* parseIPv6 behind its loop: the whole string is used, and the ellipsis stands
\* for at least one group
IPv6Complete(s, i, ellipsis) ==
  Len(s) = 0 /\ (IF i < 16 THEN ellipsis >= 0 ELSE ellipsis < 0)

RECURSIVE IPv6Groups(_, _, _)
\* parseIPv6's loop: s is what is left of the string, i the number of address
\* bytes filled, ellipsis the place of "::" (-1 without one).  A group is one to
\* four hex digits; a dot behind its digits starts the trailing IPv4 address.
IPv6Groups(s, i, ellipsis) ==
  IF i >= 16 THEN IPv6Complete(s, i, ellipsis)
  ELSE IF HexRun(s) = 0 \/ HexRun(s) > 4 THEN FALSE
  ELSE IF HexRun(s) < Len(s) /\ s[HexRun(s) + 1] = 46
  THEN /\ ~(ellipsis < 0 /\ i # 12)
       /\ i + 4 <= 16
       /\ IsIPv4Literal(s)
       /\ IPv6Complete(<<>>, i + 4, ellipsis)
  ELSE IF HexRun(s) = Len(s) THEN IPv6Complete(<<>>, i + 2, ellipsis)
  ELSE IF s[HexRun(s) + 1] # 58 THEN FALSE
  ELSE IF HexRun(s) + 1 = Len(s) THEN FALSE
  ELSE IF s[HexRun(s) + 2] = 58
  THEN /\ ellipsis < 0
       /\ IF HexRun(s) + 2 = Len(s) THEN IPv6Complete(<<>>, i + 2, i + 2)
          ELSE IPv6Groups(SubSeq(s, HexRun(s) + 3, Len(s)), i + 2, i + 2)
  ELSE IPv6Groups(SubSeq(s, HexRun(s) + 2, Len(s)), i + 2, ellipsis)

\* netip's parseIPv6 accepts name; a name with a zone ('%') is no IP for
\* net.ParseIP
IsIPv6Literal(name) ==
  IF Len(name) >= 2 /\ name[1] = 58 /\ name[2] = 58
  THEN Len(name) = 2 \/ IPv6Groups(SubSeq(name, 3, Len(name)), 0, 0)
  ELSE IPv6Groups(name, 0, -1)

\* net.ParseIP(name) != nil.  The first '.', ':' or '%' of the name decides what
\* it is parsed as.
ParseIPNotNil(name) ==
  IF \A i \in 1..Len(name) : name[i] \notin {46, 58, 37} THEN FALSE
  ELSE LET first == CHOOSE i \in 1..Len(name) :
                      /\ name[i] \in {46, 58, 37}
                      /\ \A j \in 1..(i - 1) : name[j] \notin {46, 58, 37}
       IN  CASE name[first] = 46 -> IsIPv4Literal(name)
             [] name[first] = 58 -> IsIPv6Literal(name)
             [] OTHER            -> FALSE

detectSNIType(serverName) ==
  IF Len(serverName) = 0 THEN "i"
  ELSE IF ParseIPNotNil(serverName) THEN "i"
  ELSE "d"

\* (c >= 'a' && c <= 'z') || (c >= 'A' && c <= 'Z') || (c >= '0' && c <= '9')
IsAsciiAlnum(c) ==
  (c >= 97 /\ c <= 122) \/ (c >= 65 /\ c <= 90) \/ (c >= 48 /\ c <= 57)

extractAlphanumeric(str) == SelectSeq(str, IsAsciiAlnum)

\* the marker made of the alphanumeric characters of one protocol name
AlphanumericMarker(alphanumeric) ==
  IF Len(alphanumeric) = 0 THEN "00"
  ELSE Chr(alphanumeric[1]) \o Chr(alphanumeric[Len(alphanumeric)])

extractALPN(protocols) ==
  IF Len(protocols) = 0 THEN "00"
  ELSE IF Len(protocols[1]) = 0 THEN "00"
  ELSE AlphanumericMarker(extractAlphanumeric(protocols[1]))

\* b2i(cond)
CountIf(cond) == IF cond THEN 1 ELSE 0

countExtensions(hello) ==
  CountIf(Len(hello.ServerName) # 0) + CountIf(Len(hello.SupportedProtos) > 0)
    + CountIf(Len(hello.SupportedVersions) > 0) + CountIf(Len(hello.SupportedCurves) > 0)
    + CountIf(Len(hello.SupportedPoints) > 0) + CountIf(Len(hello.SignatureSchemes) > 0)

\* the extension codes hashExtensions knows of, in the order sort.Strings
\* leaves them
KnownExtensionCodes(hello) ==
  SortHexStrings(
    (IF Len(hello.SupportedVersions) > 0 THEN <<43>> ELSE <<>>)
      \o (IF Len(hello.SupportedCurves) > 0 THEN <<10>> ELSE <<>>)
      \o (IF Len(hello.SupportedPoints) > 0 THEN <<11>> ELSE <<>>)
      \o (IF Len(hello.SignatureSchemes) > 0 THEN <<13>> ELSE <<>>))

\* combined: extString, "_" and sigString as far as they are not empty
CombinedExtensionString(extString, sigString) ==
  IF sigString = "" THEN extString
  ELSE IF extString = "" THEN sigString
  ELSE extString \o "_" \o sigString

hashExtensions(hello) ==
  truncatedSHA256(
    CombinedExtensionString(BuildHexList(KnownExtensionCodes(hello)),
                            BuildHexList(hello.SignatureSchemes)))

\* fmt.Sprintf("%s%s%s%02d%02d%s", protocol, version, sniType, cipherCount, extCount, alpn)
GeneratedPartA(version, sniType, cipherCount, extCount, alpn) ==
  "t" \o version \o sniType \o Dec2(cipherCount) \o Dec2(extCount) \o alpn

RECURSIVE JoinComma(_)
\* strings.Join(elems, ","), the strings being the sequences of their bytes
JoinComma(elems) ==
  IF Len(elems) = 0 THEN <<>>
  ELSE IF Len(elems) = 1 THEN elems[1]
  ELSE elems[1] \o <<44>> \o JoinComma(Tail(elems))

GenerateJA4(hello) ==
  IF hello = NilClientHelloInfo
  THEN [Raw |-> "", PartA |-> "", PartB |-> "", PartC |-> "", TLSVersion |-> "",
        CipherCount |-> 0, ExtensionCount |-> 0, SNI |-> <<>>, ALPN |-> <<>>]
  ELSE [Raw   |-> GeneratedPartA(getTLSVersion(hello), detectSNIType(hello.ServerName),
                                 Len(filterGREASE(hello.CipherSuites)),
                                 countExtensions(hello), extractALPN(hello.SupportedProtos))
                    \o "_" \o hashCiphers(filterGREASE(hello.CipherSuites))
                    \o "_" \o hashExtensions(hello),
        PartA |-> GeneratedPartA(getTLSVersion(hello), detectSNIType(hello.ServerName),
                                 Len(filterGREASE(hello.CipherSuites)),
                                 countExtensions(hello), extractALPN(hello.SupportedProtos)),
        PartB |-> hashCiphers(filterGREASE(hello.CipherSuites)),
        PartC |-> hashExtensions(hello),
        TLSVersion     |-> getTLSVersion(hello),
        CipherCount    |-> Len(filterGREASE(hello.CipherSuites)),
        ExtensionCount |-> countExtensions(hello),
        SNI  |-> hello.ServerName,
        ALPN |-> JoinComma(hello.SupportedProtos)]

(***************************************************************************)
(* package fingerprint: JA4Fingerprint over a decoded ClientHelloSpec      *)
(* (the second fingerprint Read computes).  A ClientHelloSpec chs is       *)
(* [TLSVersMax, CipherSuites, Extensions], an extension [k, type, codes,   *)
(* name] with k one of "sni", "alpn", "sig", "sv", "grease", "plain".      *)
(***************************************************************************)

\* ((v >> 8) == v&0xff) && v&0xf == 0xa
isGREASEUint16(v) == (v \div 256) = (v % 256) /\ (v % 16) = 10

\* the codes of all extensions of kind k, in wire order
RECURSIVE CodesOfKind(_, _)
\* the codes of the extensions of kind k, in the order of the extensions (the
\* list is walked half by half)
CodesOfKind(exts, k) ==
  IF Len(exts) = 0 THEN <<>>
  ELSE IF Len(exts) = 1 THEN (IF exts[1].k = k THEN exts[1].codes ELSE <<>>)
  ELSE CodesOfKind(SubSeq(exts, 1, Len(exts) \div 2), k)
         \o CodesOfKind(SubSeq(exts, (Len(exts) \div 2) + 1, Len(exts)), k)

RECURSIVE HighestVersion(_, _)
\* if !isGREASEUint16(v) && v > vers { vers = v }
HighestVersion(versions, vers) ==
  IF Len(versions) = 0 THEN vers
  ELSE HighestVersion(Tail(versions),
         IF ~isGREASEUint16(versions[1]) /\ versions[1] > vers THEN versions[1] ELSE vers)

unmarshalTLSVersion(chs) ==
  IF chs.TLSVersMax = 0 THEN HighestVersion(CodesOfKind(chs.Extensions, "sv"), 0)
  ELSE chs.TLSVersMax

\* tlsVersion.String
TlsVersionString(x) ==
  CASE x = 769 -> "10"
    [] x = 770 -> "11"
    [] x = 771 -> "12"
    [] x = 772 -> "13"
    [] OTHER   -> "00"

unmarshalSNI(chs) ==
  IF \E i \in 1..Len(chs.Extensions) : chs.Extensions[i].k = "sni" THEN "d" ELSE "i"

unmarshalNumberOfCipherSuites(chs) ==
  Len(SelectSeq(chs.CipherSuites, LAMBDA c : ~isGREASEUint16(c)))

unmarshalNumberOfExtensions(chs) ==
  Cardinality({ i \in 1..Len(chs.Extensions) : chs.Extensions[i].k # "grease" })

\* a.AlpnProtocols of the ALPN extension e: the list protos when the extension
\* is given with one, else the one name it carries
AlpnProtocolsOf(e) == IF "protos" \in DOMAIN e THEN e.protos ELSE <<e.name>>

\* the first protocol name of the last extension of alpns, alpn if there is none
LastNameOf(alpns, alpn) ==
  IF Len(alpns) = 0 THEN alpn ELSE AlpnProtocolsOf(alpns[Len(alpns)])[1]

\* the loop of unmarshalFirstALPN: the first protocol name of the last ALPN
\* extension that has a protocol name (len(a.AlpnProtocols) > 0)
LastFirstALPN(exts, alpn) ==
  LastNameOf(SelectSeq(exts, LAMBDA e : e.k = "alpn" /\ Len(AlpnProtocolsOf(e)) > 0), alpn)

\* FirstALPN from the protocol name alpn: a name of more than two bytes is cut to
\* string(first byte) + string(last byte), each byte converted as a rune; a
\* shorter name is kept as its bytes; "99" when the first byte is above 127
FirstALPNOf(alpn) ==
  IF Len(alpn) = 0 THEN "00"
  ELSE IF Len(alpn) > 2
  THEN (IF alpn[1] > 127 THEN "99" ELSE Chr(alpn[1]) \o Chr(alpn[Len(alpn)]))
  ELSE IF alpn[1] > 127 THEN "99"
  ELSE IF Len(alpn) = 2 THEN RawByte(alpn[1]) \o RawByte(alpn[2])
  ELSE RawByte(alpn[1])

unmarshalFirstALPN(chs) == FirstALPNOf(LastFirstALPN(chs.Extensions, <<>>))

unmarshalCipherSuites(chs) ==
  SortAscending(SelectSeq(chs.CipherSuites, LAMBDA c : ~isGREASEUint16(c)))

\* the type codes of a list of extensions
TypesOf(exts) == [i \in 1..Len(exts) |-> exts[i].type]

\* the type codes of the extensions that are neither GREASE nor SNI nor ALPN
ExtensionIds(exts) ==
  TypesOf(SelectSeq(exts, LAMBDA e : e.k \notin {"grease", "sni", "alpn"}))

unmarshalExtensions(chs) == SortAscending(ExtensionIds(chs.Extensions))

unmarshalSignatureAlgorithm(chs) == CodesOfKind(chs.Extensions, "sig")

\* JA4Fingerprint.Unmarshal
Unmarshal(chs, protocol) ==
  [Protocol             |-> protocol,
   TLSVersion           |-> unmarshalTLSVersion(chs),
   SNI                  |-> unmarshalSNI(chs),
   NumberOfCipherSuites |-> unmarshalNumberOfCipherSuites(chs),
   NumberOfExtensions   |-> unmarshalNumberOfExtensions(chs),
   FirstALPN            |-> unmarshalFirstALPN(chs),
   CipherSuites         |-> unmarshalCipherSuites(chs),
   Extensions           |-> unmarshalExtensions(chs),
   SignatureAlgorithms  |-> unmarshalSignatureAlgorithm(chs)]

\* truncatedSha256: the first 12 hex characters of the hash of in, the empty
\* string included
truncatedSha256(in) == "sha256[:6](" \o in \o ")"

\* min(x, 99)
Min99(x) == IF x < 99 THEN x ELSE 99

\* the three parts JA4Fingerprint.String joins
JA4FingerprintParts(j) ==
  [ja4a |-> Chr(j.Protocol) \o TlsVersionString(j.TLSVersion) \o j.SNI
              \o Dec2(Min99(j.NumberOfCipherSuites)) \o Dec2(Min99(j.NumberOfExtensions))
              \o j.FirstALPN,
   ja4b |-> truncatedSha256(BuildHexList(j.CipherSuites)),
   ja4c |-> IF Len(j.SignatureAlgorithms) = 0
            THEN truncatedSha256(BuildHexList(j.Extensions))
            ELSE truncatedSha256(BuildHexList(j.Extensions) \o "_"
                                   \o BuildHexList(j.SignatureAlgorithms))]

\* JA4Fingerprint.String
JA4FingerprintString(j) ==
  JA4FingerprintParts(j).ja4a \o "_" \o JA4FingerprintParts(j).ja4b
    \o "_" \o JA4FingerprintParts(j).ja4c

(***************************************************************************)
(* Inputs: the wire layout ParseJA4 consumes, written out.  A ClientHello  *)
(* is described by h = [version, sid, ciphers, comp, exts], exts a         *)
(* sequence of [type, data]; the encoders give its bytes with every length *)
(* field correct.  Malformed inputs are made from these bytes by           *)
(* overwriting single bytes (Patch) and by cutting the end (Cut).          *)
(***************************************************************************)

EncodeUint16(v) == <<(v \div 256) % 256, v % 256>>

RECURSIVE EncodeCodes(_)
\* a list of 16-bit codes, big-endian; the list is encoded half by half
EncodeCodes(codes) ==
  IF Len(codes) = 0 THEN <<>>
  ELSE IF Len(codes) = 1 THEN EncodeUint16(codes[1])
  ELSE EncodeCodes(SubSeq(codes, 1, Len(codes) \div 2))
         \o EncodeCodes(SubSeq(codes, (Len(codes) \div 2) + 1, Len(codes)))

\* {2-byte type, 2-byte length, payload}
EncodeExtension(e) == EncodeUint16(e.type) \o EncodeUint16(Len(e.data)) \o e.data

RECURSIVE EncodeExtensions(_)
\* the extensions one behind the other; the list is encoded half by half
EncodeExtensions(exts) ==
  IF Len(exts) = 0 THEN <<>>
  ELSE IF Len(exts) = 1 THEN EncodeExtension(exts[1])
  ELSE EncodeExtensions(SubSeq(exts, 1, Len(exts) \div 2))
         \o EncodeExtensions(SubSeq(exts, (Len(exts) \div 2) + 1, Len(exts)))

\* signature_algorithms: {2-byte length, 2-byte codes}
SigAlgsExt(codes) ==
  [type |-> 13, data |-> EncodeUint16(2 * Len(codes)) \o EncodeCodes(codes)]

\* supported_versions: {1-byte length, 2-byte codes}
SupportedVersionsExt(versions) ==
  [type |-> 43, data |-> <<2 * Len(versions)>> \o EncodeCodes(versions)]

\* ALPN with one protocol name: {2-byte list length, 1-byte length, name}
AlpnExt(name) ==
  [type |-> 16, data |-> EncodeUint16(1 + Len(name)) \o <<Len(name)>> \o name]

\* SNI: {2-byte list length, 1-byte name type, 2-byte name length, name}
SniExt(name) ==
  [type |-> 0,
   data |-> EncodeUint16(3 + Len(name)) \o <<0>> \o EncodeUint16(Len(name)) \o name]

\* an extension of which only the type code matters
PlainExt(type) == [type |-> type, data |-> <<>>]

\* supported_groups: {2-byte length, 2-byte codes}
SupportedGroupsExt(groups) ==
  [type |-> 10, data |-> EncodeUint16(2 * Len(groups)) \o EncodeCodes(groups)]

\* ec_point_formats: {1-byte length, 1-byte formats}
PointFormatsExt(formats) == [type |-> 11, data |-> <<Len(formats)>> \o formats]

Random32 == [i \in 1..32 |-> 0]

\* client version, random, session id, cipher suites, compression methods,
\* extensions
EncodeHelloBody(h) ==
  EncodeUint16(h.version) \o Random32
    \o <<Len(h.sid)>> \o h.sid
    \o EncodeUint16(2 * Len(h.ciphers)) \o EncodeCodes(h.ciphers)
    \o <<Len(h.comp)>> \o h.comp
    \o EncodeUint16(Len(EncodeExtensions(h.exts))) \o EncodeExtensions(h.exts)

\* handshake header: type, 3-byte length
EncodeHandshake(type, body) ==
  <<type, (Len(body) \div 65536) % 256, (Len(body) \div 256) % 256, Len(body) % 256>>
    \o body

\* record header: type, 2-byte version, 2-byte length
EncodeRecord(recType, recVersion, fragment) ==
  <<recType>> \o EncodeUint16(recVersion) \o EncodeUint16(Len(fragment)) \o fragment

\* one TLS record holding one ClientHello
EncodeClientHello(h) == EncodeRecord(22, 769, EncodeHandshake(1, EncodeHelloBody(h)))

\* bytes with the byte at 0-based index i overwritten
Patch(bytes, i, v) == [bytes EXCEPT ![i + 1] = v]

\* bytes without their last k bytes
Cut(bytes, k) == SubSeq(bytes, 1, Len(bytes) - k)

\* The worked example of the specification: ciphers [GREASE, 0x1301, 0x1302],
\* extensions [SNI, supported_versions{0x0304}].
WorkedExampleHello ==
  [version |-> 771, sid |-> <<>>, ciphers |-> <<2570, 4865, 4866>>, comp |-> <<0>>,
   exts |-> <<SniExt(<<97, 46, 98>>), SupportedVersionsExt(<<772>>)>>]

(***************************************************************************)
(* package middleware: TlsClientHelloConn                                  *)
(*                                                                         *)
(* A connection c is [buffer, handshakeSize, fingerprint, stale]: the      *)
(* struct's three fields and, of the bytes.Buffer's backing array, the     *)
(* bytes that lie behind the buffer's end after a Truncate (stale).        *)
(***************************************************************************)

NewConn == [buffer |-> <<>>, handshakeSize |-> 0, fingerprint |-> "", stale |-> <<>>]

\* c.buffer.Write(p[:n]): appends, overwriting what lay behind the end
BufferWrite(c, data) ==
  [c EXCEPT !.buffer = c.buffer \o data,
            !.stale  = IF Len(data) >= Len(c.stale) THEN <<>>
                       ELSE SubSeq(c.stale, Len(data) + 1, Len(c.stale))]

\* c.buffer.Truncate(n): the bytes cut off stay in the backing array
BufferTruncate(c, n) ==
  [c EXCEPT !.buffer = SubSeq(c.buffer, 1, n),
            !.stale  = SubSeq(c.buffer, n + 1, Len(c.buffer)) \o c.stale]

\* [done: the returned bool, conn: the connection afterwards]
hasCompletedClientHello(c) ==
  LET bufLen == Len(c.buffer) IN
  IF bufLen = 0 \/ c.handshakeSize = 0 THEN [done |-> FALSE, conn |-> c]
  ELSE IF bufLen < c.handshakeSize THEN [done |-> FALSE, conn |-> c]
  ELSE IF bufLen > c.handshakeSize
       THEN [done |-> TRUE, conn |-> BufferTruncate(c, c.handshakeSize)]
  ELSE [done |-> TRUE, conn |-> c]

\* A plausible slip: the upper end of the version range is not checked.
RecordVersionKnown_NoUpperBound(vers) == ~(vers < 768)

\* !(vers < tls.VersionSSL30 || vers > tls.VersionTLS13)
RecordVersionKnown(vers) == ~(vers < 768 \/ vers > 772)

\* A plausible slip: the 5 header bytes are counted one short.
ExpectedSize_OffByOne(handshakeLen) == (4 + handshakeLen) % 65536

\* c.handshakeSize = 5 + handshakeLen, in uint16 arithmetic
ExpectedSize(handshakeLen) == (5 + handshakeLen) % 65536

\* The connection after ParseClientHello (its error is discarded by the caller).
ParseClientHello(c) ==
  LET h == hasCompletedClientHello(c) IN
  IF h.done THEN h.conn
  ELSE
    LET bufBytes == c.buffer
        bufLen   == Len(c.buffer)
    IN
    IF bufLen < 5 THEN c
    ELSE IF bufBytes[1] # 22 THEN c
    ELSE IF ~RecordVersionKnown(bufBytes[2] * 256 + bufBytes[3]) THEN c
    ELSE
      LET handshakeLen == bufBytes[4] * 256 + bufBytes[5]
          c1 == [c EXCEPT !.handshakeSize = ExpectedSize(handshakeLen)]
      IN  hasCompletedClientHello(c1).conn

\* The bytes ParseJA4 can reach behind c.buffer.Bytes(): the stale bytes, and a
\* zeroed byte when the backing array is larger than what was ever written
\* (spare); with neither, the capacity ends at the length.
BackingSlack(c, spare) == c.stale \o (IF spare THEN <<0>> ELSE <<>>)

\* A plausible slip: the error's text is not kept as the fingerprint.
FingerprintParsed_NoFingerprintOnError(c, slack, r) ==
  [conn |-> IF r.kind = "ok" THEN [c EXCEPT !.fingerprint = r.str] ELSE c,
   parsed |-> TRUE, buf |-> c.buffer, slack |-> slack, result |-> r,
   panicked |-> r.kind = "panic"]

\* Read's branch for a completed buffer, once ParseJA4 has given r:
\* fingerprint1 is the fingerprint or, on an error, the error's text.
\* [conn: the connection afterwards; parsed: whether ParseJA4 ran, on which buffer
\* and slack and with which result; panicked: Read did not return]
FingerprintParsed(c, slack, r) ==
  [conn |-> IF r.kind = "panic" THEN c ELSE [c EXCEPT !.fingerprint = r.str],
   parsed |-> TRUE, buf |-> c.buffer, slack |-> slack, result |-> r,
   panicked |-> r.kind = "panic"]

\* Read's branch for a buffer that is not complete
BufferChunk(c, data) ==
  [conn |-> ParseClientHello(BufferWrite(c, data)),
   parsed |-> FALSE, buf |-> <<>>, slack |-> <<>>,
   result |-> [kind |-> "none", str |-> "", overread |-> FALSE],
   panicked |-> FALSE]

\* Read after the underlying c.Conn.Read(p) gave (n, err) and the bytes data in
\* p[:n].
ReadCapture(c, n, err, data, spare) ==
  IF c.fingerprint = "" /\ err = "" /\ n > 0
  THEN
    IF hasCompletedClientHello(c).done
    THEN FingerprintParsed(hasCompletedClientHello(c).conn,
           BackingSlack(hasCompletedClientHello(c).conn, spare),
           ParseJA4(hasCompletedClientHello(c).conn.buffer,
                    BackingSlack(hasCompletedClientHello(c).conn, spare), 116))
    ELSE BufferChunk(c, data)
  ELSE [conn |-> c, parsed |-> FALSE, buf |-> <<>>, slack |-> <<>>,
        result |-> [kind |-> "none", str |-> "", overread |-> FALSE],
        panicked |-> FALSE]

(***************************************************************************)
(* State.                                                                  *)
(*   One connection: stream is what the peer sends on it, pos how much of  *)
(*   it the underlying connection has delivered; buffer, handshakeSize,    *)
(*   fingerprint are the fields of TlsClientHelloConn, stale and spare     *)
(*   describe the buffer's backing array; lastUnder is what the underlying *)
(*   Read of the last call produced and lastRet what Read gave its caller; *)
(*   returned, parseCount, parsedBuf, parsedSlack, parsedAt, parseResult   *)
(*   and panicked record the history of the connection.                    *)
(*   One parser run: payload and slack are ParseJA4's input, other a       *)
(*   second payload it is compared with, hello the two ClientHellos they   *)
(*   encode, tag how the input was made, result and resultOther the        *)
(*   outcomes of ParseJA4, generated those of hashCiphers (or of the two   *)
(*   version mappings), generatedJA4 that of GenerateJA4, secondJA4 that   *)
(*   of JA4Fingerprint.Unmarshal and String, pc the position.              *)
(***************************************************************************)
VARIABLES stream, pos, spare, buffer, handshakeSize, fingerprint, stale,
          lastUnder, lastRet, returned, parseCount, parsedBuf, parsedSlack,
          parsedAt, parseResult, panicked,
          hello, payload, slack, other, tag, result, resultOther, generated,
          generatedJA4, secondJA4, pc

\* The correlation store (JA4Store) and the goroutines that use it: now is the
\* clock, storeData the map s.data, done whether the channel done is closed, mu the RWMutex,
\* tickerC whether a tick waits in ticker.C, cleanup the position of the cleanup
\* goroutine, clients the call each client goroutine is in, crashed whether the
\* process has panicked.  lastSet is history: for every key the fingerprint and
\* the time of the most recent Set.
VARIABLES now, storeData, done, mu, tickerC, cleanup, clients, lastSet, crashed

\* The server manager: mgr is the position of Manager.Shutdown, the servers whose
\* srv.Shutdown has not returned yet, and the errors collected from errChan.
VARIABLES mgr

\* The router of a service: router is r.endpoints, request the method and path
\* of a request, matched what Router.Match has returned for it.  A path is the
\* sequence of its characters.
VARIABLES router, request, matched

\* The servers: tlsConfig is whether NewManager was given a certificate, conns
\* the connections, each with the fingerprint its handshake stored, the request
\* it is serving, whether the INSERT of its row succeeds (execOK), the error
\* LogRequest returns and the row that LogRequest writes for that request.
VARIABLES tlsConfig, conns

connVars == <<stream, pos, spare, buffer, handshakeSize, fingerprint, stale,
              lastUnder, lastRet, returned, parseCount, parsedBuf, parsedSlack,
              parsedAt, parseResult, panicked>>

parseVars == <<hello, payload, slack, other, tag, result, resultOther, generated,
               generatedJA4, secondJA4, pc>>

storeVars == <<now, storeData, done, mu, tickerC, cleanup, clients, lastSet, crashed>>

srvVars == <<mgr, router, request, matched, tlsConfig, conns>>

vars == <<connVars, parseVars, storeVars, srvVars>>

NoResult == [kind |-> "none", str |-> "", overread |-> FALSE]

NoSecondJA4 == [err |-> "", str |-> "", ja4a |-> "", ja4b |-> "", ja4c |-> ""]

NoHello == [base |-> <<>>, variant |-> <<>>]

NoCall == [kind |-> "none", n |-> 0, err |-> "", data |-> <<>>]

\* the connection as TlsClientHelloListener.Accept makes it, on a given stream
ConnInit(s, sp) ==
  /\ stream = s
  /\ pos = 0
  /\ spare = sp
  /\ buffer = NewConn.buffer
  /\ handshakeSize = NewConn.handshakeSize
  /\ fingerprint = NewConn.fingerprint
  /\ stale = NewConn.stale
  /\ lastUnder = NoCall
  /\ lastRet = NoCall
  /\ returned = <<>>
  /\ parseCount = 0
  /\ parsedBuf = <<>>
  /\ parsedSlack = <<>>
  /\ parsedAt = 0
  /\ parseResult = NoResult
  /\ panicked = FALSE

\* no parser run under way
ParseIdle ==
  /\ hello = NoHello
  /\ payload = <<>>
  /\ slack = <<>>
  /\ other = <<>>
  /\ tag = "none"
  /\ result = NoResult
  /\ resultOther = NoResult
  /\ generated = <<"", "">>
  /\ generatedJA4 = GenerateJA4(NilClientHelloInfo)
  /\ secondJA4 = NoSecondJA4
  /\ pc = "idle"

(***************************************************************************)
(* package fingerprint: JA4Store (store.go)                                *)
(***************************************************************************)

\* the ttl the store is made with, in ticks of the clock
TTL == 2

\* s.ttl / 2, the interval of the cleanup ticker
Interval_WholeTTL == TTL

Interval == TTL \div 2

\* the last time at which a Set is called, and the time at which the clock stops
MaxSetTime == 1

MaxTime == MaxSetTime + 2 * TTL

\* the goroutines that call Set, Get and Stats
Clients == {"c1", "c2"}

\* remote addresses
Keys == {"10.0.0.1:5000"}

\* fingerprints (*JA4Fingerprint)
Fingerprints == {"fp1", "fp2"}

\* no return value yet
NoRet == [fp |-> "nil", at |-> 0, count |-> 0, oldest |-> 0]

\* a client goroutine outside of every call
IdleClient == [pc |-> "idle", op |-> "none", key |-> "none", fp |-> "nil", ret |-> NoRet]

\* make(map[string]*storedFingerprint)
EmptyMap == [k \in {} |-> [fingerprint |-> "nil", timestamp |-> 0]]

\* the store as NewJA4Store makes it, the cleanup goroutine started, and no call
\* under way
StoreIdle ==
  /\ now = 0
  /\ storeData = EmptyMap
  /\ done = FALSE
  /\ mu = [w |-> FALSE, r |-> 0, pending |-> 0]
  /\ tickerC = FALSE
  /\ cleanup = "select"
  /\ clients = [c \in Clients |-> IdleClient]
  /\ lastSet = EmptyMap
  /\ crashed = FALSE

\* the ports of m.servers
Ports == {"8080", "8443"}

\* Manager.Shutdown has not been called
ManagerIdle == [pc |-> "idle", running |-> {}, errors |-> {}, ret |-> "none"]

\* no request, and no result of Router.Match
NoRequest == [method |-> "", path |-> <<>>]

NoMatch == [called |-> FALSE, ep |-> 0, ok |-> FALSE]

\* the connections
Conns == {"k1", "k2"}

\* a header map with no header, a ResponseWriter nothing was written to, as
\* newResponseWriter wraps it (statusCode http.StatusOK), and no row
NoHeaders == [h \in {} |-> ""]

NewResponseWriter ==
  [statusCode |-> 200, header |-> NoHeaders, wroteHeader |-> FALSE,
   status |-> 0, sentHeader |-> NoHeaders, body |-> <<>>]

NoRow == [logged |-> FALSE, method |-> "", path |-> <<>>, fileOK |-> FALSE,
          responseStatus |-> 0, responseTemplate |-> "", ja4 |-> "nil",
          sent |-> NewResponseWriter]

\* a connection that has not been accepted
NoConn == [state |-> "none", addr |-> "none", fp |-> "nil", pc |-> "idle",
           req |-> NoRequest, fileOK |-> FALSE, w |-> NewResponseWriter,
           template |-> "", ja4 |-> "nil", execOK |-> FALSE, err |-> "",
           row |-> NoRow]

\* the manager and its servers before any call
SrvIdle ==
  /\ mgr = ManagerIdle
  /\ router = <<>>
  /\ request = NoRequest
  /\ matched = NoMatch
  /\ tlsConfig = FALSE
  /\ conns = [k \in Conns |-> NoConn]

(***************************************************************************)
(* The streams of the connection model.                                    *)
(***************************************************************************)

\* how many bytes of the next record may follow the first record in the stream
MaxTrailing == 2

\* the largest chunk that ends inside the first record; chunks that end at or
\* behind the record's end, or at the stream's end, have any size
MaxChunk == 5

\* the start of what a peer sends after its first record
NextRecordBytes == <<20, 3, 3, 0, 1, 1>>

\* 59 bytes; one cipher suite, supported_versions {0x0304}
HelloSmall ==
  EncodeClientHello(
    [version |-> 771, sid |-> <<>>, ciphers |-> <<4865>>, comp |-> <<0>>,
     exts |-> <<SupportedVersionsExt(<<772>>)>>])

\* 64 bytes; signature_algorithms is the last extension and declares an odd
\* list length (1), so that its last code starts at the payload's last byte
HelloOddSigAlgs ==
  EncodeClientHello(
    [version |-> 771, sid |-> <<1, 2, 3>>, ciphers |-> <<4865, 4866>>, comp |-> <<0>>,
     exts |-> <<[type |-> 13, data |-> <<0, 1, 4>>]>>])

\* 64 bytes; the cipher-suites length is odd (3) and the list ends the payload
HelloOddCiphers ==
  EncodeRecord(22, 769,
    EncodeHandshake(1,
      EncodeUint16(771) \o Random32 \o <<15>> \o [i \in 1..15 |-> i]
        \o <<0, 3>> \o <<19, 1, 19>>))

\* a ServerHello-typed handshake message in a well-formed record
HelloWrongType ==
  EncodeRecord(22, 769,
    EncodeHandshake(2,
      EncodeHelloBody([version |-> 771, sid |-> <<>>, ciphers |-> <<4865>>,
                       comp |-> <<0>>, exts |-> <<>>])))

\* the last extension declares 5 bytes of data and has none
HelloExtensionOverrun ==
  LET b == EncodeClientHello(
             [version |-> 771, sid |-> <<>>, ciphers |-> <<4865>>, comp |-> <<0>>,
              exts |-> <<PlainExt(23), PlainExt(35)>>])
  IN  Patch(b, Len(b) - 1, 5)

\* "GET / HTTP": a plaintext request on the wrapped listener
PlainHTTP == <<71, 69, 84, 32, 47, 32, 72, 84, 84, 80>>

\* streams whose first record passes the header checks
HelloStreams ==
  { b \o SubSeq(NextRecordBytes, 1, k) :
      b \in { HelloSmall, HelloOddSigAlgs, HelloOddCiphers, HelloWrongType,
              HelloExtensionOverrun, EncodeClientHello(WorkedExampleHello) },
      k \in 0..MaxTrailing }

OtherStreams ==
  { PlainHTTP,
    \* record type 0x17 (application data) before an otherwise valid hello
    Patch(HelloSmall, 0, 23) \o SubSeq(NextRecordBytes, 1, 1),
    \* record versions 0x0305 and 0x0201
    Patch(Patch(HelloSmall, 1, 3), 2, 5) \o SubSeq(NextRecordBytes, 1, 1),
    Patch(HelloSmall, 1, 2) \o SubSeq(NextRecordBytes, 1, 1),
    \* declared record lengths 65532 and 65531: 5 + length passes 65535
    <<22, 3, 1, 255, 252, 1, 0, 0, 0>>,
    <<22, 3, 1, 255, 251, 1, 0>>,
    \* a 2-byte record and what follows it
    <<22, 3, 3, 0, 2, 1, 0, 20, 3>> }

Streams == HelloStreams \cup OtherStreams

\* where the stream's first record ends by its header (the stream's end when the
\* header is not there)
RecordEnd(s) == IF Len(s) >= 5 THEN 5 + s[4] * 256 + s[5] ELSE Len(s)

(***************************************************************************)
(* The connection's actions.                                               *)
(***************************************************************************)

\* The state after a call of Read: under is what the underlying Read produced,
\* r what ReadCapture made of it.
ReadReturns(under, r) ==
  /\ lastUnder' = under
  /\ lastRet' = IF r.panicked THEN [under EXCEPT !.kind = "panic"] ELSE under
  /\ returned' = IF r.panicked THEN returned ELSE returned \o under.data
  /\ buffer' = r.conn.buffer
  /\ handshakeSize' = r.conn.handshakeSize
  /\ fingerprint' = r.conn.fingerprint
  /\ stale' = r.conn.stale
  /\ panicked' = r.panicked
  /\ parseCount' = IF r.parsed THEN parseCount + 1 ELSE parseCount
  /\ parsedBuf' = IF r.parsed THEN r.buf ELSE parsedBuf
  /\ parsedSlack' = IF r.parsed THEN r.slack ELSE parsedSlack
  /\ parsedAt' = IF r.parsed THEN Len(returned) ELSE parsedAt
  /\ parseResult' = IF r.parsed THEN r.result ELSE parseResult

\* One call of Read whose underlying Read produced (n, err) and data.  A
\* connection whose Read has panicked is torn down: it is not read again.
ReadCall(n, err, data) ==
  /\ ~panicked
  /\ \E r \in {ReadCapture([buffer |-> buffer, handshakeSize |-> handshakeSize,
                              fingerprint |-> fingerprint, stale |-> stale],
                             n, err, data, spare)} :
       ReadReturns([kind |-> "return", n |-> n, err |-> err, data |-> data], r)
  /\ UNCHANGED <<stream, spare>>

\* Read: the underlying connection delivers the next n bytes of the stream.
Read(n) ==
  /\ pos + n <= Len(stream)
  /\ n <= MaxChunk \/ pos + n >= RecordEnd(stream) \/ pos + n = Len(stream)
  /\ ReadCall(n, "", SubSeq(stream, pos + 1, pos + n))
  /\ pos' = pos + n
  /\ UNCHANGED parseVars
  /\ UNCHANGED storeVars
  /\ UNCHANGED srvVars

\* Read: the underlying connection delivers nothing: (0, nil) for an empty p,
\* or (0, err).
ReadNoData(err) ==
  /\ ReadCall(0, err, <<>>)
  /\ UNCHANGED pos
  /\ UNCHANGED parseVars
  /\ UNCHANGED storeVars
  /\ UNCHANGED srvVars

Init == (\E s \in Streams, sp \in BOOLEAN : ConnInit(s, sp)) /\ ParseIdle /\ StoreIdle /\ SrvIdle

Next ==
  \/ \E n \in 1..Len(stream) : Read(n)
  \/ \E err \in {"", "EOF"} : ReadNoData(err)

Spec == Init /\ [][Next]_vars

(***************************************************************************)
(* Properties of the connection (specification Spec).                      *)
(***************************************************************************)

\* the record header at the start of s passes ParseClientHello's checks, stated
\* on the bytes
HeaderAccepted(s) ==
  /\ Len(s) >= 5
  /\ s[1] = 22
  /\ s[2] * 256 + s[3] >= 768
  /\ s[2] * 256 + s[3] <= 772

\* the first byte is not the handshake record tag, or the record version is
\* outside 0x0300..0x0304
HeaderRejected(s) ==
  \/ Len(s) >= 1 /\ s[1] # 22
  \/ Len(s) >= 3 /\ (s[2] * 256 + s[3] < 768 \/ s[2] * 256 + s[3] > 772)

\* the 3-byte handshake message length in bytes 6..8 (0-based) of s
HandshakeLengthOf(s) == s[7] * 65536 + s[8] * 256 + s[9]

\* C1: every call of Read gives its caller exactly the byte count, the error and
\* the bytes that the underlying connection's Read produced.
C1_ReadPassesThrough == lastRet = lastUnder

\* C2: whenever the parser runs, its input is exactly the first E bytes returned
\* to the caller, E = 5 + the record length declared in the header, and what lies
\* behind those E bytes has no influence on the outcome.
C2_ParserGetsExactMessage ==
  parseCount > 0 =>
    /\ parsedAt >= RecordEnd(returned)
    /\ parsedBuf = SubSeq(returned, 1, RecordEnd(returned))
    /\ \A t \in {<<>>, <<0>>, <<255>>} : ParseJA4(parsedBuf, t, 116) = parseResult

\* C3 as stated: with both headers buffered, the expected size is 5 + the 3-byte
\* handshake message length.
C3_ExpectedSizeFromHandshakeLength ==
  (Len(returned) >= 9 /\ HeaderAccepted(returned)) =>
    handshakeSize = 5 + HandshakeLengthOf(returned)

\* C3 amended: once the record header has been read and accepted, the expected
\* size is 5 + the 2-byte record length of the record header, in 16 bits.
C3_ExpectedSizeFromRecordLength ==
  HeaderAccepted(returned) =>
    handshakeSize = (5 + returned[4] * 256 + returned[5]) % 65536

\* a ClientHello record's headers are in, and the size waited for is that of the
\* record, which is not 5 + the handshake message length
C3_Witness ==
  /\ Len(returned) >= 9
  /\ HeaderAccepted(returned)
  /\ returned[6] = 1
  /\ handshakeSize = 5 + returned[4] * 256 + returned[5]
  /\ handshakeSize = 9 + HandshakeLengthOf(returned)
  /\ Len(buffer) >= 9

\* the stream starts with a complete record that holds exactly one ClientHello
StartsWithClientHelloRecord(s) ==
  /\ Len(s) >= 9
  /\ HeaderAccepted(s)
  /\ s[6] = 1
  /\ RecordEnd(s) = 9 + HandshakeLengthOf(s)
  /\ RecordEnd(s) <= Len(s)

\* the connection after the first record of s arrived as one chunk
AfterRecordInOneChunk(s, sp) ==
  ReadCapture(NewConn, RecordEnd(s), "", SubSeq(s, 1, RecordEnd(s)), sp).conn

\* the fingerprint the connection ends up with when the first record of s arrives
\* as one chunk and what follows it as another
OneChunkFingerprint(s, sp) ==
  IF Len(s) = RecordEnd(s) THEN AfterRecordInOneChunk(s, sp).fingerprint
  ELSE ReadCapture(AfterRecordInOneChunk(s, sp), Len(s) - RecordEnd(s), "",
                   SubSeq(s, RecordEnd(s) + 1, Len(s)), sp).conn.fingerprint

\* C4: when a stream that starts with a complete ClientHello record has been
\* delivered, in whatever chunks, the connection has the fingerprint it has when
\* the record is delivered as one chunk.
C4_ChunkingEquivalence ==
  (StartsWithClientHelloRecord(stream) /\ pos = Len(stream) /\ ~panicked) =>
    fingerprint = OneChunkFingerprint(stream, spare)

\* C5: on a connection whose record header is rejected the parser never runs and
\* the fingerprint stays empty, whatever is read afterwards.
C5_RejectedHeaderNeverParsed ==
  HeaderRejected(returned) => (parseCount = 0 /\ fingerprint = "")

\* a rejected header, and Reads that went on behind the end the record declares:
\* the last one delivered exactly the bytes behind that end
C5_Witness ==
  /\ HeaderRejected(returned)
  /\ Len(returned) >= 9
  /\ Len(returned) > RecordEnd(returned)
  /\ lastRet.kind = "return"
  /\ lastRet.n = Len(returned) - RecordEnd(returned)
  /\ Len(buffer) = Len(returned)

\* C6: when the parser rejects the completed buffer the connection has no
\* fingerprint.
C6_RejectedBufferLeavesNoFingerprint ==
  (parseCount > 0 /\ parseResult.kind = "err") => fingerprint = ""

(***************************************************************************)
(* Parser runs.  A run takes an input, applies ParseJA4 to it (and to the  *)
(* input it is compared with) and stops.                                   *)
(***************************************************************************)

\* ParseJA4(payload, 't'), ParseJA4(other, 't') and hashCiphers on the cipher lists
ParseStep ==
  /\ pc = "start"
  /\ result' = ParseJA4(payload, slack, 116)
  /\ resultOther' = IF Len(other) = 0 THEN NoResult ELSE ParseJA4(other, slack, 116)
  /\ generated' = IF hello = NoHello THEN <<"", "">>
                  ELSE <<hashCiphers(filterGREASE(hello.base.ciphers)),
                         hashCiphers(filterGREASE(hello.variant.ciphers))>>
  /\ pc' = "done"
  /\ UNCHANGED <<hello, payload, slack, other, tag, generatedJA4, secondJA4>>
  /\ UNCHANGED connVars
  /\ UNCHANGED storeVars
  /\ UNCHANGED srvVars

\* A ClientHello by its extensions' meaning: items is a sequence of
\* [k, type, codes, name], k one of "sni", "alpn", "sig", "sv", "plain".
SniItem(name)    == [k |-> "sni",   type |-> 0,  codes |-> <<>>, name |-> name]
AlpnItem(name)   == [k |-> "alpn",  type |-> 16, codes |-> <<>>, name |-> name]
SigItem(codes)   == [k |-> "sig",   type |-> 13, codes |-> codes, name |-> <<>>]
SvItem(versions) == [k |-> "sv",    type |-> 43, codes |-> versions, name |-> <<>>]
PlainItem(type)  == [k |-> "plain", type |-> type, codes |-> <<>>, name |-> <<>>]

\* the extension an item stands for
WireExt(item) ==
  CASE item.k = "sni"  -> SniExt(item.name)
    [] item.k = "alpn" -> AlpnExt(item.name)
    [] item.k = "sig"  -> SigAlgsExt(item.codes)
    [] item.k = "sv"   -> SupportedVersionsExt(item.codes)
    [] item.k = "plain" /\ item.type = 10 -> SupportedGroupsExt(<<29>>)
    [] item.k = "plain" /\ item.type = 11 -> PointFormatsExt(<<0>>)
    [] OTHER           -> PlainExt(item.type)

\* the bytes of the ClientHello [version, ciphers, items]
EncodeItemsHello(hh) ==
  EncodeClientHello(
    [version |-> hh.version, sid |-> <<>>, ciphers |-> hh.ciphers, comp |-> <<0>>,
     exts |-> [i \in 1..Len(hh.items) |-> WireExt(hh.items[i])]])

\* seq with x inserted behind its first i elements
InsertAt(seq, i, x) == SubSeq(seq, 1, i) \o <<x>> \o SubSeq(seq, i + 1, Len(seq))

\* the permutations of 1..n
Perms(n) == { f \in [1..n -> 1..n] : \A i, j \in 1..n : i # j => f[i] # f[j] }

\* seq in the order f
Permuted(seq, f) == [i \in 1..Len(seq) |-> seq[f[i]]]

(***************************************************************************)
(* SpecParse: ParseJA4 on well-formed, truncated and patched ClientHello   *)
(* records, over each content of the slice's spare capacity.               *)
(***************************************************************************)

MaxCut == 3

PatchValues == {0, 1, 3, 255}

\* what lies behind the payload's end inside its capacity: nothing, a zero
\* byte, a byte of an earlier write
ParseSlacks == { <<>>, <<0>>, <<7>> }

\* ciphers, SNI, ALPN "h2", signature_algorithms, supported_versions
HelloFull ==
  EncodeClientHello(
    [version |-> 771, sid |-> <<>>, ciphers |-> <<4865, 49195>>, comp |-> <<0>>,
     exts |-> <<SniExt(<<97>>), AlpnExt(<<104, 50>>), SigAlgsExt(<<1027, 2052>>),
                SupportedVersionsExt(<<772, 771>>)>>])

\* the extensions total length declares 4 bytes more than the buffer holds
HelloExtensionsLengthOverrun ==
  LET b == EncodeClientHello(
             [version |-> 771, sid |-> <<>>, ciphers |-> <<4865>>, comp |-> <<0>>,
              exts |-> <<PlainExt(23), PlainExt(35)>>])
  IN  Patch(b, Len(b) - 9, 12)

ParseBases ==
  { HelloSmall, EncodeClientHello(WorkedExampleHello), HelloFull, HelloOddSigAlgs,
    HelloOddCiphers, HelloExtensionOverrun, HelloExtensionsLengthOverrun }

ParseInputs ==
  ParseBases
    \cup { Cut(b, k) : b \in ParseBases, k \in 1..MaxCut }
    \cup UNION { { Patch(b, i, v) : i \in 0..(Len(b) - 1), v \in PatchValues } :
                 b \in ParseBases }

InitParse ==
  /\ ConnInit(<<>>, FALSE)
  /\ StoreIdle
  /\ SrvIdle
  /\ hello = NoHello
  /\ payload \in ParseInputs
  /\ slack \in ParseSlacks
  /\ other = <<>>
  /\ tag = "bytes"
  /\ result = NoResult
  /\ resultOther = NoResult
  /\ generated = <<"", "">>
  /\ generatedJA4 = GenerateJA4(NilClientHelloInfo)
  /\ secondJA4 = NoSecondJA4
  /\ pc = "start"

SpecParse == InitParse /\ [][ParseStep]_vars

\* Where the extensions' 2-byte total length stands in p by the wire layout
\* (record header 5, handshake header 4, version 2, random 32, session id,
\* cipher suites, compression methods), -1 when p ends before it.
ExtensionsLengthOffset(p) ==
  IF Len(p) < 44 THEN -1
  ELSE IF 44 + p[44] + 2 > Len(p) THEN -1
  ELSE IF 46 + p[44] + Uint16At(p, <<>>, 44 + p[44]) + 1 > Len(p) THEN -1
  ELSE IF 47 + p[44] + Uint16At(p, <<>>, 44 + p[44])
             + p[47 + p[44] + Uint16At(p, <<>>, 44 + p[44])] + 2 > Len(p) THEN -1
  ELSE 47 + p[44] + Uint16At(p, <<>>, 44 + p[44])
          + p[47 + p[44] + Uint16At(p, <<>>, 44 + p[44])]

RECURSIVE SomeExtensionRunsPast(_, _, _)
\* some extension header between off and end declares data that ends behind end
SomeExtensionRunsPast(p, off, end) ==
  IF off + 4 > end THEN FALSE
  ELSE IF off + 4 + Uint16At(p, <<>>, off + 2) > end THEN TRUE
  ELSE SomeExtensionRunsPast(p, off + 4 + Uint16At(p, <<>>, off + 2), end)

\* the declared end of the extensions block
ExtensionsBlockEnd(p) ==
  ExtensionsLengthOffset(p) + 2 + Uint16At(p, <<>>, ExtensionsLengthOffset(p))

\* the extensions total length, or an extension's declared length, runs past
\* the end of the buffer or of the extensions block
ExtensionLengthRunsPast(p) ==
  /\ ExtensionsLengthOffset(p) >= 0
  /\ \/ ExtensionsBlockEnd(p) > Len(p)
     \/ SomeExtensionRunsPast(p, ExtensionsLengthOffset(p) + 2, ExtensionsBlockEnd(p))

\* C7: ParseJA4 never faults and never reads a byte outside the payload it was
\* given, whatever lengths the payload declares (odd cipher-suite or
\* signature-algorithm list lengths included).
C7_ParseStaysInsidePayload ==
  pc = "done" => (result.kind # "panic" /\ ~result.overread)

\* C8: when an extension's declared length, or the extensions total length,
\* runs past the end of the extensions block or of the buffer, ParseJA4 returns
\* an error, never a fingerprint built from the extensions before it.
C8_ExtensionOverrunIsAnError ==
  (pc = "done" /\ tag = "bytes" /\ ExtensionLengthRunsPast(payload))
    => result.kind = "err"

(***************************************************************************)
(* SpecGrease: a ClientHello and the same ClientHello with one GREASE code *)
(* inserted, both given to ParseJA4.                                       *)
(***************************************************************************)

\* the 16 codes with high byte == low byte and low nibble 0xA
GreaseCodes == { 257 * (16 * k + 10) : k \in 0..15 }

GreaseBases ==
  { [version |-> 771, ciphers |-> <<2570, 4865, 4866>>,
     items |-> <<SniItem(<<97, 46, 98>>), SvItem(<<772>>)>>],
    [version |-> 771, ciphers |-> <<4865, 49195>>,
     items |-> <<AlpnItem(<<104, 50>>), SigItem(<<1027>>), SvItem(<<772, 771>>)>>],
    [version |-> 771, ciphers |-> <<>>, items |-> <<>>],
    [version |-> 770, ciphers |-> <<4866>>, items |-> <<SvItem(<<>>)>>] }

\* hh with one GREASE code inserted, and where
GreaseVariants(hh) ==
  { [place |-> "cipher", variant |-> [hh EXCEPT !.ciphers = InsertAt(@, i, g)]] :
      i \in 0..Len(hh.ciphers), g \in GreaseCodes }
  \cup
  { [place |-> "extension", variant |-> [hh EXCEPT !.items = InsertAt(@, i, PlainItem(g))]] :
      i \in 0..Len(hh.items), g \in GreaseCodes }
  \cup
  UNION { { [place |-> "supported_versions",
             variant |-> [hh EXCEPT !.items[k].codes = InsertAt(@, i, g)]] :
              i \in 0..Len(hh.items[k].codes), g \in GreaseCodes } :
          k \in { x \in 1..Len(hh.items) : hh.items[x].k = "sv" } }

\* the start of a run on the pair (base, variant)
PairInit(hh, variant, how) ==
  /\ ConnInit(<<>>, FALSE)
  /\ StoreIdle
  /\ SrvIdle
  /\ hello = [base |-> hh, variant |-> variant]
  /\ payload = EncodeItemsHello(hh)
  /\ slack = <<>>
  /\ other = EncodeItemsHello(variant)
  /\ tag = how
  /\ result = NoResult
  /\ resultOther = NoResult
  /\ generated = <<"", "">>
  /\ generatedJA4 = GenerateJA4(NilClientHelloInfo)
  /\ secondJA4 = NoSecondJA4
  /\ pc = "start"

InitGrease ==
  \E hh \in GreaseBases : \E v \in GreaseVariants(hh) : PairInit(hh, v.variant, v.place)

SpecGrease == InitGrease /\ [][ParseStep]_vars

\* C9: GREASE invariance: inserting any of the 16 GREASE codes at any position
\* into the cipher-suite list, as an extra extension, or into the
\* supported_versions list leaves the whole fingerprint unchanged.
C9_GreaseInvariance ==
  (pc = "done" /\ tag \in {"cipher", "extension", "supported_versions"})
    => /\ result.kind = "ok"
       /\ resultOther = result
       /\ generated[2] = generated[1]

\* a TLS 1.3 fingerprint computed with a GREASE code in supported_versions
C9_Witness ==
  /\ pc = "done"
  /\ tag = "supported_versions"
  /\ other # payload
  /\ resultOther.kind = "ok"
  /\ resultOther.str = "t13d020200_sha256[:6](1301,1302)_sha256[:6](002b)"

(***************************************************************************)
(* SpecSort: a ClientHello and the same ClientHello with its cipher suites *)
(* or its extensions in another wire order, both given to ParseJA4.        *)
(***************************************************************************)

SortBases ==
  { [version |-> 771, ciphers |-> <<4866, 4865, 49195>>,
     items |-> <<SniItem(<<97>>), SvItem(<<772>>), PlainItem(23), SigItem(<<2052, 1027>>)>>],
    [version |-> 771, ciphers |-> <<49195, 2570, 4865, 47>>,
     items |-> <<PlainItem(35), AlpnItem(<<104, 50>>), PlainItem(10)>>],
    \* two signature_algorithms extensions
    [version |-> 771, ciphers |-> <<4865>>,
     items |-> <<SigItem(<<1027>>), SigItem(<<2052>>), PlainItem(10)>>],
    \* two ALPN extensions, "h2" and "h3"
    [version |-> 771, ciphers |-> <<4865, 4866>>,
     items |-> <<AlpnItem(<<104, 50>>), AlpnItem(<<104, 51>>), PlainItem(10)>>] }

\* hh with its ciphers, or its extensions, in another wire order, and which
SortVariants(hh) ==
  { [place |-> "ciphers", variant |-> [hh EXCEPT !.ciphers = Permuted(@, f)]] :
      f \in Perms(Len(hh.ciphers)) }
  \cup
  { [place |-> "extensions", variant |-> [hh EXCEPT !.items = Permuted(@, f)]] :
      f \in Perms(Len(hh.items)) }

InitSort ==
  \E hh \in SortBases : \E v \in SortVariants(hh) : PairInit(hh, v.variant, v.place)

SpecSort == InitSort /\ [][ParseStep]_vars

\* the number of extensions of kind k among items
CountKind(items, k) == Cardinality({ i \in 1..Len(items) : items[i].k = k })

\* C10 as stated: permuting the wire order of the cipher suites or of the
\* extensions does not change the fingerprint.
C10_SortInvariance ==
  (pc = "done" /\ tag \in {"ciphers", "extensions"})
    => /\ resultOther = result
       /\ generated[2] = generated[1]

\* C10, amended: permuting the wire order of the cipher suites, or of the
\* extensions of a ClientHello with at most one signature_algorithms and at
\* most one ALPN extension, does not change the fingerprint.
C10_SortInvarianceSingleExtensions ==
  (/\ pc = "done"
   /\ tag \in {"ciphers", "extensions"}
   /\ \/ tag = "ciphers"
      \/ CountKind(hello.base.items, "sig") <= 1 /\ CountKind(hello.base.items, "alpn") <= 1)
    => /\ result.kind = "ok"
       /\ resultOther = result
       /\ generated[2] = generated[1]

\* extensions in another wire order around one signature_algorithms extension
C10_Witness ==
  /\ pc = "done"
  /\ tag = "extensions"
  /\ other # payload
  /\ CountKind(hello.base.items, "sig") = 1
  /\ result.kind = "ok"
  /\ resultOther = result

(***************************************************************************)
(* SpecSigSwap: a ClientHello and the same ClientHello with two distinct   *)
(* codes of its signature_algorithms list swapped, both given to ParseJA4. *)
(***************************************************************************)

MaxSigs == 3

\* two signature schemes and a GREASE code
SigPool == {1027, 2052, 2570}

\* the lists of 2..MaxSigs codes
SigLists == UNION { [1..n -> SigPool] : n \in 2..MaxSigs }

SigSwapHello(codes) ==
  [version |-> 771, ciphers |-> <<4865>>,
   items |-> <<PlainItem(10), SigItem(codes), SvItem(<<772>>)>>]

\* codes with the codes at i and j exchanged
Swapped(codes, i, j) == [codes EXCEPT ![i] = codes[j], ![j] = codes[i]]

InitSigSwap ==
  \E codes \in SigLists :
    \E i, j \in 1..Len(codes) :
      /\ i < j
      /\ codes[i] # codes[j]
      /\ PairInit(SigSwapHello(codes), SigSwapHello(Swapped(codes, i, j)), "sigswap")

SpecSigSwap == InitSigSwap /\ [][ParseStep]_vars

\* the signature-algorithm codes of hh, in wire order
SigCodesOf(hh) == hh.items[2].codes

\* the codes that the swap moved
SwappedCodes ==
  { SigCodesOf(hello.base)[i] :
      i \in { k \in 1..Len(SigCodesOf(hello.base)) :
                SigCodesOf(hello.base)[k] # SigCodesOf(hello.variant)[k] } }

\* C11 as stated: swapping two distinct signature_algorithms codes gives a
\* different Part C hash input and a different Part C.
C11_SigAlgOrderShows ==
  (pc = "done" /\ tag = "sigswap")
    => /\ result.kind = "ok" /\ resultOther.kind = "ok"
       /\ resultOther.parts.extStr # result.parts.extStr
       /\ resultOther.parts.partC # result.parts.partC

\* C11, amended: signature-algorithm codes enter Part C's hash input in wire
\* order, GREASE codes left out, and are never sorted: swapping two distinct
\* codes neither of which is a GREASE code gives a different Part C hash input
\* and a different Part C.
C11_NonGreaseSigAlgOrderShows ==
  (pc = "done" /\ tag = "sigswap" /\ \A c \in SwappedCodes : ~IsGreaseValue(c))
    => /\ result.kind = "ok" /\ resultOther.kind = "ok"
       /\ resultOther.parts.extStr # result.parts.extStr
       /\ resultOther.parts.partC # result.parts.partC
       /\ resultOther.str # result.str

\* 0x0403, 0x0804 against 0x0804, 0x0403
C11_Witness ==
  /\ pc = "done"
  /\ tag = "sigswap"
  /\ result.kind = "ok"
  /\ result.parts.extStr = "000a,000d,002b_0403,0804"
  /\ resultOther.kind = "ok"
  /\ resultOther.parts.extStr = "000a,000d,002b_0804,0403"

(***************************************************************************)
(* SpecHello: one ClientHello, fingerprinted by ParseJA4 from its bytes,   *)
(* by GenerateJA4 from the ClientHelloInfo the TLS stack hands to          *)
(* GetConfigForClient, and by JA4Fingerprint from its decoded              *)
(* ClientHelloSpec.                                                        *)
(***************************************************************************)

MaxCount == 101

\* numbers of list entries around the display limit
CountSamples == {0, 1, 9, 10, 98, 99, 100, MaxCount}

\* n cipher-suite codes, none of them GREASE
SomeCiphers(n) == [i \in 1..n |-> 49152 + i]

\* n extensions, none of them GREASE, SNI, ALPN, signature_algorithms or
\* supported_versions
SomeItems(n) == [i \in 1..n |-> PlainItem(256 + i)]

\* protocol names: "", "h2", "http/1.1", "h", "h2c", "h" NUL, 0xff "2",
\* 0xe9 "2", "-x", "h-"
AlpnNames ==
  { <<>>, <<104, 50>>, <<104, 116, 116, 112, 47, 49, 46, 49>>, <<104>>, <<104, 50, 99>>,
    <<104, 0>>, <<255, 50>>, <<233, 50>>, <<45, 120>>, <<104, 45>> }

\* supported_versions lists
VersionLists ==
  { <<>>, <<772>>, <<771, 772>>, <<772, 771>>, <<2570, 772>>, <<2570>>,
    <<771, 2570, 770>>, <<770, 771, 6682>> }

LegacyVersions == {771, 769, 768}

\* the subsequences of items
SubSeqs(items) ==
  { SelectSeq([i \in 1..Len(items) |-> [on |-> keep[i], item |-> items[i]]],
              LAMBDA x : x.on) : keep \in [1..Len(items) -> BOOLEAN] }

\* the items of a sequence of [on, item]
ItemsOf(marked) == [i \in 1..Len(marked) |-> marked[i].item]

HelloInputs ==
  \* list lengths around 99
  { [version |-> 771, ciphers |-> SomeCiphers(n) \o g, items |-> SomeItems(m)] :
      n \in CountSamples, m \in CountSamples, g \in {<<>>, <<2570>>} }
  \cup
  \* ALPN names, supported_versions lists and legacy versions
  { [version |-> v, ciphers |-> <<4865, 4866>>,
     items |-> <<SniItem(<<97, 46, 98>>), AlpnItem(a), SvItem(sv)>>] :
      v \in LegacyVersions, a \in AlpnNames, sv \in VersionLists }
  \cup
  { [version |-> v, ciphers |-> <<4865>>, items |-> <<PlainItem(23)>>] :
      v \in LegacyVersions }
  \cup
  \* every choice among SNI, ALPN, GREASE, signature_algorithms and two others
  { [version |-> 771, ciphers |-> c, items |-> ItemsOf(x)] :
      c \in {<<>>, <<2570>>, <<4865>>},
      x \in SubSeqs(<<PlainItem(35), SniItem(<<97>>), PlainItem(6682),
                      AlpnItem(<<104, 50>>), SigItem(<<1027>>), PlainItem(10)>>) }

\* versions at or below max, newest first: the SupportedVersions the TLS
\* stack reports for a ClientHello without the extension
VersionsUpTo(max) == SelectSeq(<<772, 771, 770, 769>>, LAMBDA v : v <= max)

\* the name carried by the first item of kind k, empty if there is none
FirstNameOfKind(items, k) ==
  IF \E i \in 1..Len(items) : items[i].k = k
  THEN items[CHOOSE i \in 1..Len(items) :
               items[i].k = k /\ \A j \in 1..(i - 1) : items[j].k # k].name
  ELSE <<>>

HasKind(items, k) == \E i \in 1..Len(items) : items[i].k = k

HasType(items, t) == \E i \in 1..Len(items) : items[i].type = t

\* the ClientHelloInfo of the ClientHello hh
InfoOf(hh) ==
  [ServerName        |-> FirstNameOfKind(hh.items, "sni"),
   CipherSuites      |-> hh.ciphers,
   SupportedProtos   |-> IF HasKind(hh.items, "alpn")
                         THEN <<FirstNameOfKind(hh.items, "alpn")>> ELSE <<>>,
   SupportedVersions |-> IF HasKind(hh.items, "sv")
                         THEN CodesOfKind(hh.items, "sv") ELSE VersionsUpTo(hh.version),
   SupportedCurves   |-> IF HasType(hh.items, 10) THEN <<29>> ELSE <<>>,
   SupportedPoints   |-> IF HasType(hh.items, 11) THEN <<0>> ELSE <<>>,
   SignatureSchemes  |-> CodesOfKind(hh.items, "sig")]

\* the ClientHelloSpec of the ClientHello hh
ChsOf(hh) ==
  [TLSVersMax   |-> IF HasKind(hh.items, "sv") THEN 0 ELSE hh.version,
   CipherSuites |-> hh.ciphers,
   Extensions   |-> [i \in 1..Len(hh.items) |->
                       IF hh.items[i].k = "plain" /\ isGREASEUint16(hh.items[i].type)
                       THEN [hh.items[i] EXCEPT !.k = "grease"]
                       ELSE hh.items[i]]]

\* what the reader of one extension of a ClientHello answers in chs.FromRaw: an
\* ALPN extension with an empty protocol name, a supported_versions or a
\* signature_algorithms extension with an empty list is refused; "" when the
\* extension is read
ExtensionReadError(item) ==
  CASE item.k = "alpn" /\ Len(item.name) = 0 -> "unable to read ALPN extension data"
    [] item.k = "sni" /\ Len(item.name) = 0  -> "unable to read server name extension data"
    [] item.k = "sv" /\ Len(item.codes) = 0  -> "unable to read supported versions extension data"
    [] item.k = "sig" /\ Len(item.codes) = 0 -> "unable to read signature algorithms extension data"
    [] OTHER -> ""

\* the error of chs.FromRaw(clientHelloRecord, true, false) for the record of the
\* ClientHello hh, "" without one: the extensions are read in wire order and the
\* first one refused ends the decoding
FromRawError(hh) ==
  IF \A i \in 1..Len(hh.items) : ExtensionReadError(hh.items[i]) = "" THEN ""
  ELSE ExtensionReadError(
         hh.items[CHOOSE i \in 1..Len(hh.items) :
                    /\ ExtensionReadError(hh.items[i]) # ""
                    /\ \A j \in 1..(i - 1) : ExtensionReadError(hh.items[j]) = ""])

\* JA4Fingerprint{}
ZeroJA4Fingerprint ==
  [Protocol |-> 0, TLSVersion |-> 0, SNI |-> "", NumberOfCipherSuites |-> 0,
   NumberOfExtensions |-> 0, FirstALPN |-> "", CipherSuites |-> <<>>,
   Extensions |-> <<>>, SignatureAlgorithms |-> <<>>]

\* JA4Fingerprint.UnmarshalBytes on the record of hh: [err: the error's text, ""
\* for nil; j: the fingerprint, the zero value after an error]
UnmarshalBytes(hh, protocol) ==
  IF FromRawError(hh) # ""
  THEN [err |-> "cannot parse client hello: " \o FromRawError(hh),
        j   |-> ZeroJA4Fingerprint]
  ELSE [err |-> "", j |-> Unmarshal(ChsOf(hh), protocol)]

\* j.String() and its three parts for the fingerprint j
SecondJA4(j) ==
  [err  |-> "",
   str  |-> JA4FingerprintString(j),
   ja4a |-> JA4FingerprintParts(j).ja4a,
   ja4b |-> JA4FingerprintParts(j).ja4b,
   ja4c |-> JA4FingerprintParts(j).ja4c]

\* what Read logs as "JA4 Fingerprint 2" after UnmarshalBytes gave u:
\* err.Error() if err != nil, else j.String()
Fingerprint2(u) ==
  IF u.err # "" THEN [NoSecondJA4 EXCEPT !.err = u.err, !.str = u.err]
  ELSE SecondJA4(u.j)

InitHello ==
  \E hh \in HelloInputs :
    /\ ConnInit(EncodeItemsHello(hh) \o SubSeq(NextRecordBytes, 1, 1), FALSE)
    /\ StoreIdle
    /\ SrvIdle
    /\ hello = [base |-> hh, variant |-> hh]
    /\ payload = EncodeItemsHello(hh)
    /\ slack = <<>>
    /\ other = <<>>
    /\ tag = "hello"
    /\ result = NoResult
    /\ resultOther = NoResult
    /\ generated = <<"", "">>
    /\ generatedJA4 = GenerateJA4(NilClientHelloInfo)
    /\ secondJA4 = NoSecondJA4
    /\ pc = "start"

\* the Read in which the record of the ClientHello arrives: its bytes are
\* buffered and the expected size is taken from the record header
RecordRead ==
  /\ tag = "hello"
  /\ pos = 0
  /\ Read(Len(payload))

\* the next Read that delivers data finds the buffer complete and takes the two
\* fingerprints of the record: fingerprint1 of ParseJA4, which becomes
\* c.fingerprint, and fingerprint2 of UnmarshalBytes
ReadFingerprints ==
  /\ tag = "hello"
  /\ pc \in {"start", "config"}
  /\ fingerprint = ""
  /\ hasCompletedClientHello([buffer |-> buffer, handshakeSize |-> handshakeSize,
                              fingerprint |-> fingerprint, stale |-> stale]).done
  /\ pos < Len(stream)
  /\ ReadCall(Len(stream) - pos, "", SubSeq(stream, pos + 1, Len(stream)))
  /\ pos' = Len(stream)
  /\ result' = parseResult'
  /\ secondJA4' = IF panicked' THEN secondJA4
                  ELSE Fingerprint2(UnmarshalBytes(hello.base, 116))
  /\ pc' = IF pc = "start" THEN "read" ELSE "done"
  /\ UNCHANGED <<hello, payload, slack, other, tag, resultOther, generated, generatedJA4>>
  /\ UNCHANGED storeVars
  /\ UNCHANGED srvVars

(***************************************************************************)
(* Claims on the fingerprints of one ClientHello (SpecHello)               *)
(***************************************************************************)

\* the literal both ParseJA4 and truncatedSHA256 write for an empty list
EmptyListLiteral == "000000000000"

\* no cipher suite of the ClientHello hh is left once GREASE is filtered out
NoCiphersLeft(hh) == \A i \in 1..Len(hh.ciphers) : IsGreaseValue(hh.ciphers[i])

\* every extension of hh is GREASE, SNI or ALPN: no qualifying extension, and so
\* no signature algorithm either
NoQualifyingExtension(hh) ==
  \A i \in 1..Len(hh.items) :
    hh.items[i].k \in {"sni", "alpn"} \/ IsGreaseValue(hh.items[i].type)

\* Read has taken its fingerprints of the ClientHello, and ParseJA4 gave one
ReadFingerprinted == pc \in {"read", "done"} /\ tag = "hello" /\ result.kind = "ok"

\* the fingerprints of Read and of GetConfigForClient have been produced
BothFingerprinted == pc = "done" /\ tag = "hello" /\ result.kind = "ok"

\* UnmarshalBytes has given a fingerprint
SecondFingerprinted == secondJA4.err = ""

\* C12 (as stated): Part B is the literal "000000000000" whenever the
\* GREASE-filtered cipher list is empty, Part C is that literal whenever there is
\* no qualifying extension and no signature algorithm, and neither fingerprint
\* Read computes (ParseJA4's and JA4Fingerprint.String's) carries the hash of the
\* empty string in Part B or Part C.
C12_EmptyListSentinel ==
  ReadFingerprinted =>
    /\ NoCiphersLeft(hello.base) =>
         /\ result.parts.partB = EmptyListLiteral
         /\ SecondFingerprinted => secondJA4.ja4b = EmptyListLiteral
    /\ NoQualifyingExtension(hello.base) =>
         /\ result.parts.partC = EmptyListLiteral
         /\ SecondFingerprinted => secondJA4.ja4c = EmptyListLiteral
    /\ result.parts.partB # ComputeTruncatedSHA256("")
    /\ result.parts.partC # ComputeTruncatedSHA256("")
    /\ secondJA4.ja4b # truncatedSha256("")
    /\ secondJA4.ja4c # truncatedSha256("")

\* the extensions of hh that are not GREASE
NonGreaseItems(hh) == SelectSeq(hh.items, LAMBDA e : ~IsGreaseValue(e.type))

\* the type codes of the extensions of hh that are neither GREASE nor SNI nor
\* ALPN, in wire order
QualifyingTypes(hh) ==
  TypesOf(SelectSeq(hh.items, LAMBDA e : ~IsGreaseValue(e.type) /\ e.type \notin {0, 16}))

\* C13: the SNI (0x0000) and ALPN (0x0010) type codes never appear in the extension
\* list hashed into Part C, yet every SNI and ALPN extension is counted: the
\* extension count is the number of non-GREASE extensions (Part A shows it capped
\* at 99) and the Part C list is the sorted list of the non-GREASE type codes
\* without SNI and ALPN.
C13_SniAlpnCountedNotListed ==
  ReadFingerprinted =>
    /\ \A i \in 1..Len(result.parts.extensions) : result.parts.extensions[i] \notin {0, 16}
    /\ result.parts.extensions = SortAscending(QualifyingTypes(hello.base))
    /\ result.parts.count = Len(NonGreaseItems(hello.base))
    /\ result.parts.extCount = Dec2(CountDisplay(Len(NonGreaseItems(hello.base))))

\* C13 witness: a ClientHello with SNI, ALPN, a GREASE extension and two others
\* has count 04 and the list 000a,0023
C13_Witness ==
  /\ ReadFingerprinted
  /\ HasKind(hello.base.items, "sni") /\ HasKind(hello.base.items, "alpn")
  /\ HasType(hello.base.items, 6682)
  /\ result.parts.extCount = "04"
  /\ result.parts.extStr = "000a,0023"

\* the cipher suites of hh that are not GREASE
NonGreaseCiphers(hh) == SelectSeq(hh.ciphers, LAMBDA c : ~IsGreaseValue(c))

\* Part A of GenerateJA4's fingerprint g as it reads with the counts ciphers and
\* extensions shown as two digits capped at 99
PartAWithCounts(g, ciphers, extensions) ==
  GeneratedPartA(g.TLSVersion, detectSNIType(g.SNI), CountDisplay(ciphers),
                 CountDisplay(extensions),
                 extractALPN(InfoOf(hello.base).SupportedProtos))

\* C14 (as stated): in the fingerprint of ParseJA4 and in the one of GenerateJA4
\* the cipher-count and extension-count fields of Part A are two decimal digits
\* each, equal to min(count, 99) of the GREASE-filtered cipher list and of the
\* GREASE-filtered extension list.
C14_TwoDigitCounts ==
  /\ ReadFingerprinted =>
       /\ result.parts.cipherCount = Dec2(CountDisplay(Len(NonGreaseCiphers(hello.base))))
       /\ result.parts.extCount = Dec2(CountDisplay(Len(NonGreaseItems(hello.base))))
       /\ Len(result.parts.cipherCount) = 2 /\ Len(result.parts.extCount) = 2
  /\ BothFingerprinted =>
       generatedJA4.PartA = PartAWithCounts(generatedJA4,
                                            Len(NonGreaseCiphers(hello.base)),
                                            Len(NonGreaseItems(hello.base)))

\* the supported_versions entries of hh that are not GREASE, in wire order
NonGreaseVersions(hh) ==
  SelectSeq(CodesOfKind(hh.items, "sv"), LAMBDA v : ~IsGreaseValue(v))

\* the numerically highest entry of a non-empty list
Highest(versions) ==
  CHOOSE v \in { versions[i] : i \in 1..Len(versions) } :
    \A i \in 1..Len(versions) : versions[i] <= v

\* C16 (as stated): the version code in Part A, in ParseJA4's fingerprint and in
\* GenerateJA4's, comes from the numerically highest non-GREASE entry of
\* supported_versions when the ClientHello carries one, whatever its position, and
\* from the legacy client version when it has no supported_versions extension.
C16_VersionFromHighestSupported ==
  /\ ReadFingerprinted =>
       /\ Len(NonGreaseVersions(hello.base)) > 0 =>
            result.parts.version = MapTLSVersion(Highest(NonGreaseVersions(hello.base)))
       /\ ~HasKind(hello.base.items, "sv") =>
            result.parts.version = MapTLSVersion(hello.base.version)
  /\ BothFingerprinted =>
       /\ Len(NonGreaseVersions(hello.base)) > 0 =>
            generatedJA4.TLSVersion
              = mapTLSVersion(Highest(NonGreaseVersions(hello.base)))
       /\ ~HasKind(hello.base.items, "sv") =>
            generatedJA4.TLSVersion = mapTLSVersion(hello.base.version)

\* the first protocol name the ClientHello hh advertises, empty without ALPN
FirstAdvertisedName(hh) ==
  IF HasKind(hh.items, "alpn") THEN FirstNameOfKind(hh.items, "alpn") ELSE <<>>

\* C17 (as stated): the ALPN marker in Part A, in ParseJA4's fingerprint and in
\* GenerateJA4's, is two characters: the first and the last character of the first
\* advertised protocol name, "00" without ALPN or for an empty name, and "99"
\* when the first or the last character is not a printable ASCII character.
C17_AlpnMarker ==
  LET name   == FirstAdvertisedName(hello.base)
      first  == name[1]
      last   == name[Len(name)]
      marker == IF Len(name) = 0 THEN "00"
                ELSE IF first < 32 \/ first > 126 \/ last < 32 \/ last > 126 THEN "99"
                ELSE Chr(first) \o Chr(last)
  IN  /\ ReadFingerprinted => result.parts.alpn = marker
      /\ BothFingerprinted =>
           generatedJA4.PartA
             = GeneratedPartA(generatedJA4.TLSVersion, detectSNIType(generatedJA4.SNI),
                              generatedJA4.CipherCount, generatedJA4.ExtensionCount,
                              marker)

(***************************************************************************)
(* The version mapping on every 16-bit code (SpecVersion): payload holds   *)
(* the two bytes of a version code, generated the strings MapTLSVersion and *)
(* mapTLSVersion give for it.                                              *)
(***************************************************************************)

\* the values of a uint16
VersionCodes == 0..65535

InitVersion ==
  \E version \in VersionCodes :
    /\ ConnInit(<<>>, FALSE)
    /\ StoreIdle
    /\ SrvIdle
    /\ hello = NoHello
    /\ payload = EncodeUint16(version)
    /\ slack = <<>>
    /\ other = <<>>
    /\ tag = "version"
    /\ result = NoResult
    /\ resultOther = NoResult
    /\ generated = <<"", "">>
    /\ generatedJA4 = GenerateJA4(NilClientHelloInfo)
    /\ secondJA4 = NoSecondJA4
    /\ pc = "start"

\* both mappings applied to the code
MapVersionStep ==
  /\ pc = "start"
  /\ generated' = <<MapTLSVersion(Uint16At(payload, <<>>, 0)),
                    mapTLSVersion(Uint16At(payload, <<>>, 0))>>
  /\ pc' = "done"
  /\ UNCHANGED <<hello, payload, slack, other, tag, result, resultOther,
                 generatedJA4, secondJA4>>
  /\ UNCHANGED connVars
  /\ UNCHANGED storeVars
  /\ UNCHANGED srvVars

SpecVersion == InitVersion /\ [][MapVersionStep]_vars

\* C15 (as stated): the version mapping, MapTLSVersion as well as mapTLSVersion,
\* returns "13", "12", "11", "10", "s3", "d1", "d2", "d3" for 0x0304, 0x0303,
\* 0x0302, 0x0301, 0x0300, 0xfeff, 0xfefd, 0xfefc and "00" for every other
\* 16-bit code.
C15_VersionMapping ==
  (pc = "done" /\ tag = "version") =>
    LET version == Uint16At(payload, <<>>, 0)
        listed  == CASE version = 772   -> "13"
                     [] version = 771   -> "12"
                     [] version = 770   -> "11"
                     [] version = 769   -> "10"
                     [] version = 768   -> "s3"
                     [] version = 65279 -> "d1"
                     [] version = 65277 -> "d2"
                     [] version = 65276 -> "d3"
                     [] OTHER           -> "00"
    IN  generated[1] = listed /\ generated[2] = listed

(***************************************************************************)
(* JA4Store: the methods, the cleanup goroutine and the clock (SpecStore,  *)
(* SpecStoreFair).  A call takes the lock, runs its body and releases      *)
(* the lock in separate steps, so calls overlap as far as the RWMutex      *)
(* lets them.                                                              *)
(***************************************************************************)

\* every method under the read lock
LockKind_AllShared(op) == "RLock"

\* the lock a method takes: s.mu.Lock() in Set and removeExpired, s.mu.RLock() in
\* Get and Stats
LockKind(op) == IF op \in {"Set", "removeExpired"} THEN "Lock" ELSE "RLock"

\* the map d after d[remoteAddr] = &storedFingerprint{fingerprint: fp, timestamp: t}
Set(d, remoteAddr, fp, t) ==
  [k \in DOMAIN d \cup {remoteAddr} |->
     IF k = remoteAddr THEN [fingerprint |-> fp, timestamp |-> t] ELSE d[k]]

\* Get with an entry expiring as soon as its age reaches the ttl
Get_ExpiresAtTTL(d, remoteAddr, t) ==
  IF remoteAddr \notin DOMAIN d THEN "nil"
  ELSE IF t - d[remoteAddr].timestamp >= TTL THEN "nil"
  ELSE d[remoteAddr].fingerprint

Get_IgnoresTTL(d, remoteAddr, t) ==
  IF remoteAddr \notin DOMAIN d THEN "nil" ELSE d[remoteAddr].fingerprint

\* what Get returns at time t: nil if !ok, nil if time.Since(stored.timestamp) >
\* s.ttl, else stored.fingerprint
Get(d, remoteAddr, t) ==
  IF remoteAddr \notin DOMAIN d THEN "nil"
  ELSE IF t - d[remoteAddr].timestamp > TTL THEN "nil"
  ELSE d[remoteAddr].fingerprint

\* A plausible slip: an entry is deleted as soon as its age reaches the ttl.
removeExpired_DeletesAtTTL(d, t) ==
  [k \in { x \in DOMAIN d : ~(t - d[x].timestamp >= TTL) } |-> d[k]]

\* the map d after removeExpired at time t: every entry with
\* now.Sub(stored.timestamp) > s.ttl deleted
removeExpired(d, t) ==
  [k \in { x \in DOMAIN d : ~(t - d[x].timestamp > TTL) } |-> d[k]]

\* the earliest timestamp of a non-empty map
OldestTime(d) ==
  CHOOSE t \in { d[k].timestamp : k \in DOMAIN d } :
    \A k \in DOMAIN d : t <= d[k].timestamp

\* what Stats returns at time t
Stats(d, t) ==
  [count  |-> Cardinality(DOMAIN d),
   oldest |-> IF DOMAIN d = {} THEN 0 ELSE t - OldestTime(d)]

\* sync.RWMutex.  A call of Lock announces itself and then waits; RLock returns
\* when no writer holds the lock and none waits for it.
CanEnter(kind) == kind = "Lock" \/ (~mu.w /\ mu.pending = 0)

\* mu and the caller's position after the call of Lock or RLock
MuAfterCall(kind) ==
  IF kind = "Lock" THEN [mu EXCEPT !.pending = @ + 1] ELSE [mu EXCEPT !.r = @ + 1]

PcAfterCall(kind) == IF kind = "Lock" THEN "waiting" ELSE "in"

\* Lock returns when neither a writer nor a reader holds the lock
CanLock == ~mu.w /\ mu.r = 0

MuLocked == [mu EXCEPT !.w = TRUE, !.pending = @ - 1]

\* Unlock / RUnlock
MuReleased(kind) ==
  IF kind = "Lock" THEN [mu EXCEPT !.w = FALSE] ELSE [mu EXCEPT !.r = @ - 1]

\* crypto/tls refuses the ClientHello hh before GetConfigForClient is called: its
\* reader of the extensions refuses what the reader of chs.FromRaw refuses
ClientHelloRefused(hh) == FromRawError(hh) # ""

\* the remote address of the connection the ClientHello arrives on
HelloAddr == "10.0.0.1:5000"

\* GetConfigForClient for the ClientHello: the fingerprint of GenerateJA4 is
\* stored under the remote address (hello.Conn is the connection)
ConfigFingerprint ==
  /\ tag = "hello"
  /\ pc \in {"start", "read"}
  /\ ~ClientHelloRefused(hello.base)
  /\ CanLock
  /\ \E ja4 \in {GenerateJA4(InfoOf(hello.base))} :
       /\ generatedJA4' = ja4
       /\ storeData' = Set(storeData, HelloAddr, ja4, now)
       /\ lastSet' = Set(lastSet, HelloAddr, ja4, now)
  /\ pc' = IF pc = "start" THEN "config" ELSE "done"
  /\ UNCHANGED <<hello, payload, slack, other, tag, result, resultOther, generated,
                 secondJA4>>
  /\ UNCHANGED <<now, done, mu, tickerC, cleanup, clients, crashed>>
  /\ UNCHANGED connVars
  /\ UNCHANGED srvVars

\* The ClientHello is fingerprinted from its record, by Read, and from its
\* ClientHelloInfo, by GetConfigForClient, each on its own: no step takes both.
FingerprintStep == ReadFingerprints \/ ConfigFingerprint

SpecHello == InitHello /\ [][RecordRead \/ FingerprintStep]_vars

\* client c calls the method op: s.mu.Lock() or s.mu.RLock()
Call(c, op, k, fp) ==
  /\ ~crashed
  /\ clients[c].pc = "idle"
  /\ CanEnter(LockKind(op))
  /\ mu' = MuAfterCall(LockKind(op))
  /\ clients' = [clients EXCEPT ![c] = [pc |-> PcAfterCall(LockKind(op)), op |-> op,
                                        key |-> k, fp |-> fp, ret |-> NoRet]]
  /\ UNCHANGED <<now, storeData, done, tickerC, cleanup, lastSet, crashed>>
  /\ UNCHANGED <<connVars, parseVars, srvVars>>

SetCall(c, k, fp) == now <= MaxSetTime /\ Call(c, "Set", k, fp)

GetCall(c, k) == Call(c, "Get", k, "nil")

StatsCall(c) == Call(c, "Stats", "none", "nil")

\* s.mu.Lock() returns in client c
ClientLocked(c) ==
  /\ ~crashed
  /\ clients[c].pc = "waiting"
  /\ CanLock
  /\ mu' = MuLocked
  /\ clients' = [clients EXCEPT ![c].pc = "in"]
  /\ UNCHANGED <<now, storeData, done, tickerC, cleanup, lastSet, crashed>>
  /\ UNCHANGED <<connVars, parseVars, srvVars>>

\* the body of Set
SetBody(c) ==
  /\ ~crashed
  /\ clients[c].pc = "in" /\ clients[c].op = "Set"
  /\ storeData' = Set(storeData, clients[c].key, clients[c].fp, now)
  /\ lastSet' = Set(lastSet, clients[c].key, clients[c].fp, now)
  /\ clients' = [clients EXCEPT ![c].pc = "out"]
  /\ UNCHANGED <<now, done, mu, tickerC, cleanup, crashed>>
  /\ UNCHANGED <<connVars, parseVars, srvVars>>

\* the body of Get
GetBody(c) ==
  /\ ~crashed
  /\ clients[c].pc = "in" /\ clients[c].op = "Get"
  /\ clients' = [clients EXCEPT ![c].pc = "out",
                                ![c].ret = [NoRet EXCEPT !.fp = Get(storeData, clients[c].key, now),
                                                         !.at = now]]
  /\ UNCHANGED <<now, storeData, done, mu, tickerC, cleanup, lastSet, crashed>>
  /\ UNCHANGED <<connVars, parseVars, srvVars>>

\* the body of Stats
StatsBody(c) ==
  /\ ~crashed
  /\ clients[c].pc = "in" /\ clients[c].op = "Stats"
  /\ clients' = [clients EXCEPT ![c].pc = "out",
                                ![c].ret = [NoRet EXCEPT !.at = now,
                                                         !.count = Stats(storeData, now).count,
                                                         !.oldest = Stats(storeData, now).oldest]]
  /\ UNCHANGED <<now, storeData, done, mu, tickerC, cleanup, lastSet, crashed>>
  /\ UNCHANGED <<connVars, parseVars, srvVars>>

\* the deferred Unlock or RUnlock: the call of client c returns
Return(c) ==
  /\ ~crashed
  /\ clients[c].pc = "out"
  /\ mu' = MuReleased(LockKind(clients[c].op))
  /\ clients' = [clients EXCEPT ![c] = IdleClient]
  /\ UNCHANGED <<now, storeData, done, tickerC, cleanup, lastSet, crashed>>
  /\ UNCHANGED <<connVars, parseVars, srvVars>>

\* cleanup: case <-ticker.C, s.removeExpired() called up to its s.mu.Lock()
CleanupTick ==
  /\ ~crashed
  /\ cleanup = "select" /\ tickerC
  /\ CanEnter(LockKind("removeExpired"))
  /\ tickerC' = FALSE
  /\ mu' = MuAfterCall(LockKind("removeExpired"))
  /\ cleanup' = PcAfterCall(LockKind("removeExpired"))
  /\ UNCHANGED <<now, storeData, done, clients, lastSet, crashed>>
  /\ UNCHANGED <<connVars, parseVars, srvVars>>

\* s.mu.Lock() returns in removeExpired
CleanupLocked ==
  /\ ~crashed
  /\ cleanup = "waiting"
  /\ CanLock
  /\ mu' = MuLocked
  /\ cleanup' = "in"
  /\ UNCHANGED <<now, storeData, done, tickerC, clients, lastSet, crashed>>
  /\ UNCHANGED <<connVars, parseVars, srvVars>>

\* the body of removeExpired
RemoveExpiredBody ==
  /\ ~crashed
  /\ cleanup = "in"
  /\ storeData' = removeExpired(storeData, now)
  /\ cleanup' = "out"
  /\ UNCHANGED <<now, done, mu, tickerC, clients, lastSet, crashed>>
  /\ UNCHANGED <<connVars, parseVars, srvVars>>

\* the deferred Unlock of removeExpired; cleanup is back at its select
CleanupUnlock ==
  /\ ~crashed
  /\ cleanup = "out"
  /\ mu' = MuReleased(LockKind("removeExpired"))
  /\ cleanup' = "select"
  /\ UNCHANGED <<now, storeData, done, tickerC, clients, lastSet, crashed>>
  /\ UNCHANGED <<connVars, parseVars, srvVars>>

\* cleanup: case <-s.done, return (the deferred ticker.Stop() ends the ticks)
CleanupExit ==
  /\ ~crashed
  /\ cleanup = "select" /\ done
  /\ cleanup' = "exited"
  /\ UNCHANGED <<now, storeData, done, mu, tickerC, clients, lastSet, crashed>>
  /\ UNCHANGED <<connVars, parseVars, srvVars>>

\* close(s.done), which panics on a channel that is closed already
CloseDone ==
  /\ ~crashed
  /\ done' = TRUE
  /\ crashed' = done
  /\ UNCHANGED <<now, storeData, mu, tickerC, cleanup, clients, lastSet>>
  /\ UNCHANGED <<connVars, parseVars>>

\* JA4Store.Close
Close == CloseDone /\ UNCHANGED srvVars

\* the clock moves on by one tick; every Interval ticks the ticker puts a tick
\* into ticker.C, which holds one tick at most
Tick ==
  /\ ~crashed
  /\ now < MaxTime
  /\ now' = now + 1
  /\ tickerC' = (tickerC \/ (cleanup # "exited" /\ (now + 1) % Interval = 0))
  /\ UNCHANGED <<storeData, done, mu, cleanup, clients, lastSet, crashed>>
  /\ UNCHANGED <<connVars, parseVars, srvVars>>

InitStore == ConnInit(<<>>, FALSE) /\ ParseIdle /\ StoreIdle /\ SrvIdle

\* the steps of the client goroutines cs
ClientSteps(cs) ==
  \/ \E c \in cs, k \in Keys, fp \in Fingerprints : SetCall(c, k, fp)
  \/ \E c \in cs, k \in Keys : GetCall(c, k)
  \/ \E c \in cs : StatsCall(c)
  \/ \E c \in cs : ClientLocked(c)
  \/ \E c \in cs : SetBody(c)
  \/ \E c \in cs : GetBody(c)
  \/ \E c \in cs : StatsBody(c)
  \/ \E c \in cs : Return(c)

\* the steps of a sweep
SweepSteps ==
  \/ CleanupTick
  \/ CleanupLocked
  \/ RemoveExpiredBody
  \/ CleanupUnlock

\* the steps of cleanup
CleanupSteps == SweepSteps \/ CleanupExit

\* the steps of the client goroutines and of cleanup
StoreCalls == ClientSteps(Clients) \/ CleanupSteps

StoreSteps == StoreCalls \/ Close

StoreNext == StoreSteps \/ Tick

\* the store with the clock running free of the goroutines
SpecStore == InitStore /\ [][StoreNext]_vars

\* client c has run the body of a Get and not yet returned
GetDone(c) == clients[c].pc = "out" /\ clients[c].op = "Get"

\* C18: Get(key) returns the fingerprint given to the most recent Set(key) if
\* there is one and it happened no more than the ttl before, and nil otherwise,
\* whatever cleanup has removed and whether or not the store is closed.
C18_GetReturnsLatestSet ==
  \A c \in Clients :
    GetDone(c) =>
      clients[c].ret.fp =
        IF /\ clients[c].key \in DOMAIN lastSet
           /\ clients[c].ret.at - lastSet[clients[c].key].timestamp <= TTL
        THEN lastSet[clients[c].key].fingerprint
        ELSE "nil"

\* C18 witness: on a closed store whose cleanup goroutine has exited, a Get
\* returns fp2, set over fp1 exactly the ttl before
C18_Witness ==
  \E c \in Clients :
    /\ GetDone(c)
    /\ done /\ cleanup = "exited"
    /\ clients[c].ret.fp = "fp2"
    /\ clients[c].ret.at - lastSet[clients[c].key].timestamp = TTL

(***************************************************************************)
(* The store with the free clock and goroutines that are scheduled: time   *)
(* passes whatever the goroutines do, and every goroutine that can take a  *)
(* step takes it in the end.  The scheduler runs every runnable goroutine, *)
(* and the RLock of a new reader waits for a writer that is pending, so    *)
(* that the readers cannot keep a writer out for ever.  How long a step    *)
(* waits is not bounded.                                                   *)
(***************************************************************************)
StoreFairness ==
  /\ WF_vars(Tick)
  /\ WF_vars(CleanupTick)
  /\ WF_vars(CleanupLocked)
  /\ WF_vars(RemoveExpiredBody)
  /\ WF_vars(CleanupUnlock)
  /\ \A c \in Clients :
       /\ WF_vars(ClientLocked(c))
       /\ WF_vars(SetBody(c))
       /\ WF_vars(GetBody(c))
       /\ WF_vars(StatsBody(c))
       /\ WF_vars(Return(c))

SpecStoreFair == InitStore /\ [][StoreNext]_vars /\ StoreFairness

\* every entry of the map is at most 1.5 x TTL old
NoEntryOlderThanOneAndAHalfTTL ==
  \A k \in DOMAIN storeData : 2 * (now - storeData[k].timestamp) <= 3 * TTL

\* no call of Set is under way and none will be made, and the last Set was
\* stamped no later than MaxSetTime: 2 x TTL of the clock's span lie behind it
NoMoreSets ==
  /\ now > MaxSetTime
  /\ \A c \in Clients : clients[c].op # "Set"
  /\ \A k \in DOMAIN lastSet : lastSet[k].timestamp <= MaxSetTime

\* C19 (as stated): while the store is open, cleanup deletes every entry no
\* later than 1.5 x TTL after the Set that stored it, and once no Set is made any
\* more the count that Stats reports returns to 0 (or the store is closed)
C19_SweptWithinOneAndAHalfTTL ==
  /\ [](~done => NoEntryOlderThanOneAndAHalfTTL)
  /\ (NoMoreSets ~> (Stats(storeData, now).count = 0 \/ done))

\* a sweep that has not yet read the clock is due or under way: a tick waits in
\* ticker.C, or removeExpired has been called and has not run its loop
SweepDue == tickerC \/ cleanup \in {"waiting", "in"}

\* removeExpired runs its body in this step
SweepStep == cleanup = "in" /\ cleanup' = "out"

\* C19 as amended: while the store is open, for every entry that has been in
\* the map for 1.5 x TTL a sweep is due or under way; a sweep, when it runs,
\* leaves no entry older than TTL behind; and once no Set is made any more the
\* count that Stats reports returns to 0 (or the store is closed).  How long
\* after its tick a sweep runs is not bounded.
C19_SweepDueWithinOneAndAHalfTTL ==
  /\ [](~done =>
         \A k \in DOMAIN storeData :
           2 * (now - storeData[k].timestamp) >= 3 * TTL => SweepDue)
  /\ [][SweepStep =>
          \A k \in DOMAIN storeData' : now - storeData'[k].timestamp <= TTL]_vars
  /\ (NoMoreSets ~> (Stats(storeData, now).count = 0 \/ done))

\* removeExpired, running late, has just deleted from the open store an entry
\* that had been in the map for more than 1.5 x TTL, and the map is empty
C19_Witness ==
  /\ ~done /\ cleanup = "out"
  /\ NoMoreSets
  /\ Stats(storeData, now).count = 0
  /\ \E k \in DOMAIN lastSet : 2 * (now - lastSet[k].timestamp) > 3 * TTL

\* the goroutines that are between the return of their Lock or RLock and their
\* Unlock or RUnlock, that is, that may access s.data; cleanup is one of them
\* while it is in removeExpired
Accessing ==
  { c \in Clients : clients[c].pc \in {"in", "out"} }
    \cup (IF cleanup \in {"in", "out"} THEN {"cleanup"} ELSE {})

\* the goroutines among them that are in Set or in removeExpired
Writing ==
  { c \in Clients : clients[c].pc \in {"in", "out"} /\ clients[c].op = "Set" }
    \cup (IF cleanup \in {"in", "out"} THEN {"cleanup"} ELSE {})

\* C20: while a Set or removeExpired accesses the map, no other Get, Stats,
\* Set or removeExpired accesses it
C20_WritersExcludeAll == Writing # {} => Cardinality(Accessing) = 1

\* a Get and a Stats access the map at the same time
C20_Witness ==
  \E c, d \in Clients :
    /\ c # d
    /\ {c, d} \subseteq Accessing
    /\ clients[c].op = "Get" /\ clients[d].op = "Stats"

(***************************************************************************)
(* Manager.Shutdown: one goroutine per server calls srv.Shutdown(ctx) and  *)
(* sends its error, if any, to errChan; Shutdown collects the errors until *)
(* errChan is closed, closes the store and returns.                        *)
(***************************************************************************)

\* the outcomes of srv.Shutdown(ctx)
ShutdownErrors == {"nil", "context deadline exceeded"}

\* Manager.Shutdown is called: the goroutines are started
ShutdownCall ==
  /\ ~crashed
  /\ mgr.pc = "idle"
  /\ mgr' = [mgr EXCEPT !.pc = "collect", !.running = Ports]
  /\ UNCHANGED <<connVars, parseVars, storeVars>>
  /\ UNCHANGED <<router, request, matched, tlsConfig, conns>>

\* the goroutine of the server on port p: srv.Shutdown(ctx) returns err, which
\* goes to errChan if it is not nil; wg.Done()
ServerShutdown(p, err) ==
  /\ ~crashed
  /\ mgr.pc = "collect" /\ p \in mgr.running
  /\ mgr' = [mgr EXCEPT !.running = @ \ {p},
                         !.errors = IF err = "nil" THEN @ ELSE @ \cup {p}]
  /\ UNCHANGED <<connVars, parseVars, storeVars>>
  /\ UNCHANGED <<router, request, matched, tlsConfig, conns>>

\* where Shutdown goes on when errChan is closed and its errors are collected:
\* to the call of m.ja4Store.Close(), whatever the errors
ShutdownAfterCollect_ReturnsErrorsFirst(errors) == IF errors = {} THEN "close" ELSE "return"

ShutdownAfterCollect(errors) == "close"

\* wg.Wait() has returned and errChan is closed: the range loop ends
ShutdownCollected ==
  /\ ~crashed
  /\ mgr.pc = "collect" /\ mgr.running = {}
  /\ mgr' = [mgr EXCEPT !.pc = ShutdownAfterCollect(mgr.errors)]
  /\ UNCHANGED <<connVars, parseVars, storeVars>>
  /\ UNCHANGED <<router, request, matched, tlsConfig, conns>>

\* m.ja4Store.Close()
ShutdownClose ==
  /\ mgr.pc = "close"
  /\ CloseDone
  /\ mgr' = [mgr EXCEPT !.pc = "return"]
  /\ UNCHANGED <<router, request, matched, tlsConfig, conns>>

\* the value Shutdown returns
ShutdownResult(errors) == IF errors # {} THEN "shutdown errors" ELSE "nil"

ShutdownReturn ==
  /\ ~crashed
  /\ mgr.pc = "return"
  /\ mgr' = [mgr EXCEPT !.pc = "returned", !.ret = ShutdownResult(mgr.errors)]
  /\ UNCHANGED <<connVars, parseVars, storeVars>>
  /\ UNCHANGED <<router, request, matched, tlsConfig, conns>>

ShutdownSteps ==
  \/ ShutdownCall
  \/ \E p \in Ports, err \in ShutdownErrors : ServerShutdown(p, err)
  \/ ShutdownCollected
  \/ ShutdownClose
  \/ ShutdownReturn

\* the goroutines that still call the store while Shutdown runs
LateClients == {"c1"}

ShutdownNext == ClientSteps(LateClients) \/ CleanupSteps \/ ShutdownSteps \/ Tick

\* every goroutine that can take a step takes it in the end; sync.Mutex hands
\* the lock to a waiter that has been starved, so that cleanup gets the lock
\* although other writers come and go; and the select of cleanup, which picks
\* among its ready cases at random, picks case <-s.done in the end
ShutdownFairness ==
  /\ WF_vars(CleanupTick)
  /\ SF_vars(CleanupLocked)
  /\ WF_vars(RemoveExpiredBody)
  /\ WF_vars(CleanupUnlock)
  /\ SF_vars(CleanupExit)
  /\ \A c \in LateClients :
       /\ SF_vars(ClientLocked(c))
       /\ WF_vars(SetBody(c))
       /\ WF_vars(GetBody(c))
       /\ WF_vars(StatsBody(c))
       /\ WF_vars(Return(c))

SpecShutdown == InitStore /\ [][ShutdownNext]_vars /\ ShutdownFairness

\* Shutdown has run
ShutdownRan == mgr.pc = "returned"

\* the channel done has been closed, and closed once
SignalledOnce == done /\ ~crashed

\* C21 as amended: once Shutdown has run, on every path through it, the
\* channel done has been closed exactly once and cleanup exits in the end;
\* after its exit no sweep is performed
C21_SweeperStoppedByShutdown ==
  /\ [](mgr.pc \in {"return", "returned"} => SignalledOnce)
  /\ (ShutdownRan ~> cleanup = "exited")
  /\ [][cleanup = "exited" => cleanup' = "exited"]_vars

\* C21 as stated: moreover no sweep is performed once Shutdown has run
C21_NoSweepAfterShutdown ==
  /\ [](mgr.pc \in {"return", "returned"} => SignalledOnce)
  /\ (ShutdownRan ~> cleanup = "exited")
  /\ [][ShutdownRan => ~SweepStep]_vars

\* Shutdown has returned its servers' errors and cleanup has exited
C21_Witness ==
  /\ ShutdownRan
  /\ mgr.ret = "shutdown errors"
  /\ SignalledOnce
  /\ cleanup = "exited"

(***************************************************************************)
(* Router.Match.                                                           *)
(***************************************************************************)

\* filepath.Match(pattern, name) for patterns of literal characters, * and ?:
\* * stands for any sequence of characters other than the separator, ? for
\* one character other than the separator
RECURSIVE FilepathMatch(_, _)
FilepathMatch(pattern, name) ==
  IF pattern = <<>> THEN name = <<>>
  ELSE IF Head(pattern) = "*"
       THEN \E k \in 0..Len(name) :
              /\ \A i \in 1..k : name[i] # "/"
              /\ FilepathMatch(Tail(pattern), SubSeq(name, k + 1, Len(name)))
  ELSE IF name = <<>> THEN FALSE
  ELSE IF Head(pattern) = "?"
       THEN Head(name) # "/" /\ FilepathMatch(Tail(pattern), Tail(name))
  ELSE Head(pattern) = Head(name) /\ FilepathMatch(Tail(pattern), Tail(name))

\* ep.Method != "*" && ep.Method != method fails: the endpoint takes the method
MethodMatches(ep, method) == ep.Method = "*" \/ ep.Method = method

\* ep.Path == "/*" || ep.Path == "*"
IsWildcardPath(path) == path = <<"/", "*">> \/ path = <<"*">>

\* the loop of Match from endpoint i on; wildcardMatch is the index of the saved
\* wildcard endpoint, 0 for nil.  The result is the index of the endpoint
\* returned, 0 for nil, and the flag.
RECURSIVE MatchFrom(_, _, _, _, _)
MatchFrom(endpoints, method, path, i, wildcardMatch) ==
  IF i > Len(endpoints)
  THEN IF wildcardMatch # 0 THEN [called |-> TRUE, ep |-> wildcardMatch, ok |-> TRUE]
       ELSE [called |-> TRUE, ep |-> 0, ok |-> FALSE]
  ELSE IF ~MethodMatches(endpoints[i], method)
       THEN MatchFrom(endpoints, method, path, i + 1, wildcardMatch)
  ELSE IF endpoints[i].Path = path
       THEN [called |-> TRUE, ep |-> i, ok |-> TRUE]
  ELSE IF IsWildcardPath(endpoints[i].Path)
       THEN MatchFrom(endpoints, method, path, i + 1,
                      IF wildcardMatch = 0 THEN i ELSE wildcardMatch)
  ELSE IF FilepathMatch(endpoints[i].Path, path)
       THEN [called |-> TRUE, ep |-> i, ok |-> TRUE]
  ELSE MatchFrom(endpoints, method, path, i + 1, wildcardMatch)

Match(endpoints, method, path) == MatchFrom(endpoints, method, path, 1, 0)

\* the most endpoints a router holds
MaxEndpoints == 3

EndpointPaths == { <<"/", "a">>, <<"/", "*">>, <<"*">>, <<"/", "a", "*">>, <<"/", "?">> }

EndpointMethods == {"GET", "*"}

Endpoints ==
  [Path : EndpointPaths, Method : EndpointMethods, Status : {200}, Template : {""}]

RECURSIVE EndpointLists(_)
EndpointLists(n) ==
  IF n = 0 THEN {<<>>}
  ELSE EndpointLists(n - 1)
         \cup { Append(l, e) : l \in { x \in EndpointLists(n - 1) : Len(x) = n - 1 },
                              e \in Endpoints }

RequestMethods == {"GET", "POST"}

RequestPaths == { <<"/", "a">>, <<"/", "b">>, <<"/", "a", "b">>, <<"/", "a", "/", "b">> }

\* a router built by AddEndpoint calls, and a request
InitRouter ==
  /\ ConnInit(<<>>, FALSE) /\ ParseIdle /\ StoreIdle
  /\ mgr = ManagerIdle
  /\ router \in EndpointLists(MaxEndpoints)
  /\ request \in [method : RequestMethods, path : RequestPaths]
  /\ matched = NoMatch
  /\ tlsConfig = FALSE
  /\ conns = [k \in Conns |-> NoConn]

\* r.Match(method, path)
MatchStep ==
  /\ ~matched.called
  /\ matched' = Match(router, request.method, request.path)
  /\ UNCHANGED <<mgr, router, request, tlsConfig, conns>>
  /\ UNCHANGED <<connVars, parseVars, storeVars>>

SpecRouter == InitRouter /\ [][MatchStep]_vars

\* the endpoints of the router that take the request's method
Compatible == { i \in 1..Len(router) : MethodMatches(router[i], request.method) }

ExactMatches == { i \in Compatible : router[i].Path = request.path }

WildcardMatches == { i \in Compatible : IsWildcardPath(router[i].Path) }

PatternMatches ==
  { i \in Compatible \ (ExactMatches \cup WildcardMatches) :
      FilepathMatch(router[i].Path, request.path) }

\* C25: Match returns an exact match if there is one, else a pattern match if
\* there is one, else a wildcard match if there is one, else nothing, whatever
\* the order in which the endpoints were added
C25_ExactThenPatternThenWildcard ==
  matched.called =>
    IF ExactMatches # {} THEN matched.ok /\ matched.ep \in ExactMatches
    ELSE IF PatternMatches # {} THEN matched.ok /\ matched.ep \in PatternMatches
    ELSE IF WildcardMatches # {} THEN matched.ok /\ matched.ep \in WildcardMatches
    ELSE ~matched.ok

(***************************************************************************)
(* The middleware chain Logger(ServiceHeaders(HandleRequest)) on the       *)
(* connections of the servers, with the correlation store.                 *)
(***************************************************************************)

\* header map h with h[k] set to v
SetHeader(h, k, v) == [x \in DOMAIN h \cup {k} |-> IF x = k THEN v ELSE h[x]]

\* header map h with the entries of m set
SetHeaders(h, m) == [x \in DOMAIN h \cup DOMAIN m |-> IF x \in DOMAIN m THEN m[x] ELSE h[x]]

\* header map h without k
DelHeader(h, k) == [x \in DOMAIN h \ {k} |-> h[x]]

\* WriteHeader of the http.ResponseWriter that is wrapped: the first call sends
\* the status line and the headers, a later call is superfluous and sends
\* nothing
UnderlyingWriteHeader(w, code) ==
  IF w.wroteHeader THEN w
  ELSE [w EXCEPT !.wroteHeader = TRUE, !.status = code, !.sentHeader = w.header]

\* Write of the wrapped http.ResponseWriter, which responseWriter does not
\* override: it sends status 200 first if no header was written
UnderlyingWrite(w, content) ==
  [UnderlyingWriteHeader(w, 200) EXCEPT !.body = Append(@, content)]

\* responseWriter.WriteHeader as a variant that records the first code only
WriteHeader_RecordsFirst(w, code) ==
  UnderlyingWriteHeader([w EXCEPT !.statusCode = IF w.wroteHeader THEN @ ELSE code], code)

\* responseWriter.WriteHeader
WriteHeader(w, code) == UnderlyingWriteHeader([w EXCEPT !.statusCode = code], code)

\* http.Error(w, error, code) on the responseWriter
HttpError(w, error, code) ==
  UnderlyingWrite(
    WriteHeader([w EXCEPT !.header =
                   SetHeader(SetHeader(DelHeader(@, "Content-Length"),
                                       "Content-Type", "text/plain; charset=utf-8"),
                             "X-Content-Type-Options", "nosniff")],
                code),
    error)

\* http.Error(w, error, code) on the http.ResponseWriter itself, before any
\* wrapper and any service header
UnderlyingHttpError(w, error, code) ==
  UnderlyingWrite(
    UnderlyingWriteHeader([w EXCEPT !.header =
                             SetHeader(SetHeader(DelHeader(@, "Content-Length"),
                                                 "Content-Type", "text/plain; charset=utf-8"),
                                       "X-Content-Type-Options", "nosniff")],
                          code),
    error)

\* the endpoint that Match has found, nil as an endpoint with no fields set
NilEndpoint == [Path |-> <<>>, Method |-> "", Status |-> 0, Template |-> ""]

EndpointOf(endpoints, found) == IF found.ok THEN endpoints[found.ep] ELSE NilEndpoint

\* GenericService.HandleRequest writing to w; fileOK is whether os.ReadFile
\* reads the template.  The endpoints of the model carry no headers of their
\* own.
HandleRequest(endpoints, w, req, fileOK) ==
  IF ~Match(endpoints, req.method, req.path).ok
  THEN HttpError(w, "Not Found", 404)
  ELSE IF EndpointOf(endpoints, Match(endpoints, req.method, req.path)).Template = ""
       THEN WriteHeader(w, EndpointOf(endpoints, Match(endpoints, req.method, req.path)).Status)
  ELSE IF ~fileOK
       THEN HttpError(
              WriteHeader(w, EndpointOf(endpoints, Match(endpoints, req.method, req.path)).Status),
              "open: no such file or directory", 500)
  ELSE UnderlyingWrite(
         WriteHeader(w, EndpointOf(endpoints, Match(endpoints, req.method, req.path)).Status),
         EndpointOf(endpoints, Match(endpoints, req.method, req.path)).Template)

\* svc.Headers()
ServiceHeaderMap == [h \in {"Server"} |-> "nginx"]

\* the handler of ServiceHeaders around HandleRequest
ServiceHeaders(endpoints, w, req, fileOK) ==
  HandleRequest(endpoints, [w EXCEPT !.header = SetHeaders(@, ServiceHeaderMap)], req, fileOK)

\* the text of the error LogRequest wraps when rl.db.conn.Exec fails
InsertFailed == "failed to insert request log"

\* A plausible slip: a request without fingerprint is refused.
LogRequest_RejectsMissingFingerprint(req, fileOK, responseStatus, responseTemplate, ja4, sent, execOK) ==
  IF ja4 = "nil" THEN [err |-> "missing fingerprint", row |-> NoRow]
  ELSE IF ~execOK THEN [err |-> InsertFailed, row |-> NoRow]
  ELSE [err |-> "",
        row |-> [logged |-> TRUE, method |-> req.method, path |-> req.path,
                 fileOK |-> fileOK, responseStatus |-> responseStatus,
                 responseTemplate |-> responseTemplate, ja4 |-> ja4, sent |-> sent]]

\* LogRequest: [err: the error it returns, row: the row it has inserted].  ja4
\* nil leaves the fingerprint columns empty; execOK is whether the INSERT
\* succeeds, and when it fails no row exists.  sent is history: the response the
\* peer has received.
LogRequest(req, fileOK, responseStatus, responseTemplate, ja4, sent, execOK) ==
  IF ~execOK THEN [err |-> InsertFailed, row |-> NoRow]
  ELSE [err |-> "",
        row |-> [logged |-> TRUE, method |-> req.method, path |-> req.path,
                 fileOK |-> fileOK, responseStatus |-> responseStatus,
                 responseTemplate |-> responseTemplate, ja4 |-> ja4, sent |-> sent]]

\* the endpoints of the service
ServiceRouter ==
  << [Path |-> <<"/">>, Method |-> "GET", Status |-> 200, Template |-> "index.html"],
     [Path |-> <<"/", "a">>, Method |-> "*", Status |-> 403, Template |-> ""] >>

ServeRequests == [method : {"GET"}, path : { <<"/">>, <<"/", "a">>, <<"/", "b">> }]

StoreUntouched ==
  UNCHANGED <<now, storeData, done, mu, tickerC, cleanup, clients, lastSet, crashed>>

\* a connection is accepted from the remote address addr
Accept(k, addr) ==
  /\ conns[k].state = "none"
  /\ conns' = [conns EXCEPT ![k].state = IF tlsConfig THEN "handshake" ELSE "open",
                             ![k].addr = addr]
  /\ StoreUntouched
  /\ UNCHANGED <<mgr, router, request, matched, tlsConfig>>
  /\ UNCHANGED <<connVars, parseVars>>

\* the ClientHello of connection k has the fingerprint FingerprintOf(k)
FingerprintOf(k) == IF k = "k1" THEN "fp1" ELSE "fp2"

\* GetConfigForClient during the handshake of k: the fingerprint of the
\* ClientHello is stored under the remote address unless hello.Conn is nil
GetConfigForClient(k, hasConn) ==
  /\ conns[k].state = "handshake"
  /\ ~hasConn \/ CanLock
  /\ storeData' = IF hasConn THEN Set(storeData, conns[k].addr, FingerprintOf(k), now)
                   ELSE storeData
  /\ lastSet' = IF hasConn THEN Set(lastSet, conns[k].addr, FingerprintOf(k), now)
                 ELSE lastSet
  /\ conns' = [conns EXCEPT ![k].state = "open",
                             ![k].fp = IF hasConn THEN FingerprintOf(k) ELSE "nil"]
  /\ UNCHANGED <<now, done, mu, tickerC, cleanup, clients, crashed>>
  /\ UNCHANGED <<mgr, router, request, matched, tlsConfig>>
  /\ UNCHANGED <<connVars, parseVars>>

\* the text of the error httputil.DumpRequest gives when the body of the
\* request cannot be read
DumpFailed == "unexpected EOF"

\* Logger on a request of connection k, up to the return of next.ServeHTTP;
\* dumpOK is whether httputil.DumpRequest succeeds: when it fails Logger answers
\* with http.Error on the writer it was given and returns.  fileOK matters only
\* when the endpoint has a template and the handler runs.
LoggerServe(k, req, fileOK, dumpOK) ==
  /\ conns[k].state = "open" /\ conns[k].pc = "idle"
  /\ fileOK \/ (dumpOK /\ EndpointOf(router, Match(router, req.method, req.path)).Template # "")
  /\ conns' = [conns EXCEPT
                 ![k].pc = IF dumpOK THEN "served" ELSE "failed",
                 ![k].req = req,
                 ![k].fileOK = fileOK,
                 ![k].template =
                    IF dumpOK
                    THEN EndpointOf(router, Match(router, req.method, req.path)).Template
                    ELSE "",
                 ![k].w = IF dumpOK
                          THEN ServiceHeaders(router, NewResponseWriter, req, fileOK)
                          ELSE UnderlyingHttpError(NewResponseWriter, DumpFailed, 500)]
  /\ StoreUntouched
  /\ UNCHANGED <<mgr, router, request, matched, tlsConfig>>
  /\ UNCHANGED <<connVars, parseVars>>

\* ja4Store.Get(r.RemoteAddr)
LoggerLookup(k) ==
  /\ conns[k].pc = "served"
  /\ CanEnter("RLock")
  /\ conns' = [conns EXCEPT ![k].pc = "looked",
                             ![k].ja4 = Get(storeData, conns[k].addr, now)]
  /\ StoreUntouched
  /\ UNCHANGED <<mgr, router, request, matched, tlsConfig>>
  /\ UNCHANGED <<connVars, parseVars>>

\* requestLogger.LogRequest; its error is printed and nothing else
LoggerLog(k, execOK) ==
  /\ conns[k].pc = "looked"
  /\ conns' = [conns EXCEPT
                 ![k].pc = "logged",
                 ![k].execOK = execOK,
                 ![k].err = LogRequest(conns[k].req, conns[k].fileOK, conns[k].w.statusCode,
                                       conns[k].template, conns[k].ja4, conns[k].w,
                                       execOK).err,
                 ![k].row = LogRequest(conns[k].req, conns[k].fileOK, conns[k].w.statusCode,
                                       conns[k].template, conns[k].ja4, conns[k].w,
                                       execOK).row]
  /\ StoreUntouched
  /\ UNCHANGED <<mgr, router, request, matched, tlsConfig>>
  /\ UNCHANGED <<connVars, parseVars>>

\* the handler returns; the connection waits for its next request.  After a
\* request whose body could not be read the server closes the connection.
LoggerReturn(k) ==
  /\ conns[k].pc \in {"logged", "failed"}
  /\ conns' = [conns EXCEPT ![k] = [NoConn EXCEPT !.state = IF conns[k].pc = "failed"
                                                            THEN "closed" ELSE "open",
                                                   !.addr = conns[k].addr,
                                                   !.fp = conns[k].fp]]
  /\ StoreUntouched
  /\ UNCHANGED <<mgr, router, request, matched, tlsConfig>>
  /\ UNCHANGED <<connVars, parseVars>>

InitServe ==
  /\ ConnInit(<<>>, FALSE) /\ ParseIdle /\ StoreIdle
  /\ mgr = ManagerIdle
  /\ router = ServiceRouter
  /\ request = NoRequest
  /\ matched = NoMatch
  /\ tlsConfig \in BOOLEAN
  /\ conns = [k \in Conns |-> NoConn]

\* a call of Set or Get is one step, taken when its lock is free; the lock of
\* the store keeps every other access out for the length of the call.  The
\* store stays open.
ServeNext ==
  \/ \E k \in Conns, addr \in Keys : Accept(k, addr)
  \/ \E k \in Conns, hasConn \in BOOLEAN : GetConfigForClient(k, hasConn)
  \/ \E k \in Conns, req \in ServeRequests, fileOK, dumpOK \in BOOLEAN :
       LoggerServe(k, req, fileOK, dumpOK)
  \/ \E k \in Conns : LoggerLookup(k)
  \/ \E k \in Conns, execOK \in BOOLEAN : LoggerLog(k, execOK)
  \/ \E k \in Conns : LoggerReturn(k)
  \/ SweepSteps
  \/ Tick

SpecServe == InitServe /\ [][ServeNext]_vars

\* C22: a request on a connection whose handshake stored a fingerprint is
\* logged with that fingerprint, the first request and every later one
C22_LookupReturnsConnectionFingerprint ==
  \A k \in Conns :
    (conns[k].pc \in {"looked", "logged"} /\ conns[k].fp # "nil")
      => conns[k].ja4 = conns[k].fp

\* the most recent Set under the address of k is the one of k's handshake, and
\* it is no older than the ttl
HandshakeEntryFresh(k) ==
  /\ conns[k].addr \in DOMAIN lastSet
  /\ lastSet[conns[k].addr].fingerprint = conns[k].fp
  /\ now - lastSet[conns[k].addr].timestamp <= TTL

\* Logger's lookup for connection k happens in this step
LookupStep(k) == conns[k].pc = "served" /\ conns'[k].pc = "looked"

\* C22 as amended: the lookup for a request on a connection whose handshake
\* stored a fingerprint returns that fingerprint exactly when the request is
\* looked up no later than the ttl after the handshake and no later handshake
\* has stored a fingerprint under the same remote address
C22_LookupReturnsFreshHandshakeFingerprint ==
  [][\A k \in Conns :
       (LookupStep(k) /\ conns[k].fp # "nil")
         => (conns'[k].ja4 = conns[k].fp <=> HandshakeEntryFresh(k))]_vars

\* a request is logged with the fingerprint of its connection's handshake,
\* which happened the whole ttl before
C22_Witness ==
  \E k \in Conns :
    /\ conns[k].pc = "logged"
    /\ conns[k].row.logged
    /\ conns[k].fp # "nil"
    /\ conns[k].row.ja4 = conns[k].fp
    /\ now - lastSet[conns[k].addr].timestamp >= TTL

\* what the peer receives of the response written to w
Sent(w) == [status |-> w.status, header |-> w.sentHeader, body |-> w.body]

\* connection k has done its lookup for the request it is serving
LookedUp(k) == conns[k].pc \in {"looked", "logged"}

\* C23: two requests with the same method and path (and the same outcome of
\* reading the template) get the same status, headers and body whatever their
\* lookups return, and a request whose lookup misses is logged like any other,
\* with the fingerprint absent: whether the row exists depends on the INSERT
\* alone, and LogRequest returns an error only when the INSERT fails
C23_ResponseIndependentOfLookup ==
  /\ \A k \in Conns :
       conns[k].pc = "logged" =>
         /\ conns[k].row.logged <=> conns[k].execOK
         /\ conns[k].err # "" <=> ~conns[k].execOK
         /\ conns[k].row.logged =>
              /\ conns[k].row.ja4 = conns[k].ja4
              /\ Sent(conns[k].row.sent) = Sent(conns[k].w)
  /\ \A k1, k2 \in Conns :
       (/\ LookedUp(k1) /\ LookedUp(k2)
        /\ conns[k1].req = conns[k2].req
        /\ conns[k1].fileOK = conns[k2].fileOK)
         => Sent(conns[k1].w) = Sent(conns[k2].w)

\* the same request is logged for two connections, once with no fingerprint
\* and once with one, and both got status 200 and the template
C23_Witness ==
  \E k1, k2 \in Conns :
    /\ conns[k1].pc = "logged" /\ conns[k2].pc = "logged"
    /\ conns[k1].row.logged /\ conns[k2].row.logged
    /\ conns[k1].row.ja4 = "nil" /\ conns[k2].row.ja4 # "nil"
    /\ conns[k1].req = conns[k2].req
    /\ Sent(conns[k1].w).status = 200 /\ Sent(conns[k2].w).status = 200
    /\ Sent(conns[k1].w).body = <<"index.html">>

\* C30: the status in the row of the request log is the status the peer has
\* received, however many times the handler has called WriteHeader
C30_LoggedStatusIsSentStatus ==
  \A k \in Conns :
    (conns[k].pc = "logged" /\ conns[k].row.logged) =>
      conns[k].row.responseStatus = Sent(conns[k].row.sent).status

\* C24: ParseJA4 runs at most once on a connection; once it has run, whether
\* it gave a fingerprint or an error, no later Read runs it again or changes
\* the connection's fingerprint
C24_ParsedAtMostOnce ==
  /\ [](parseCount <= 1)
  /\ [][parseCount >= 1 => (parseCount' = parseCount /\ fingerprint' = fingerprint)]_vars

\* ParseJA4 has rejected the buffer, and a later Read has delivered data
C24_Witness ==
  /\ parseCount = 1
  /\ parseResult.kind = "err"
  /\ ~panicked
  /\ lastRet.n > 0
  /\ Len(returned) > parsedAt + lastRet.n

\* the buffer holds the size its record header declares: hasCompletedClientHello
\* would say true
BufferComplete == handshakeSize # 0 /\ Len(buffer) >= handshakeSize

\* C26: when the Read whose bytes bring the buffer to the expected size has
\* returned, the connection has its fingerprint; no further Read is needed
C26_FingerprintInCompletingRead ==
  (BufferComplete /\ ~panicked) => fingerprint # ""

\* C27: the expected size kept once the record header is accepted is 5 + the
\* declared 16-bit length as an integer, never a wrapped value below the header's
\* size
C27_ExpectedSizeWithoutWraparound ==
  HeaderAccepted(returned) =>
    /\ handshakeSize = 5 + (returned[4] * 256 + returned[5])
    /\ handshakeSize >= 5

\* ParseClientHello has seen five bytes and refused the record header
HeaderValidationFailed == Len(buffer) >= 5 /\ ~HeaderAccepted(buffer)

\* C28: once the record header has been refused, or the buffer is complete, no
\* Read makes the buffer longer
C28_BufferStopsGrowing ==
  [][(HeaderValidationFailed \/ BufferComplete) => Len(buffer') <= Len(buffer)]_vars

\* the entries of d that Get reports at time t
Visible(d, t) == { k \in DOMAIN d : t - d[k].timestamp <= TTL }

\* C29: no lookup can tell that a sweep has run.  lastSet is the map as the calls
\* of Set alone leave it, the same execution with every sweep removed: each Get
\* returns what it returns on that map, the entries Get reports are the same in
\* both maps, and a sweep deletes only entries older than the ttl
C29_SweepInvisibleToLookups ==
  /\ [](\A c \in Clients :
          GetDone(c) => clients[c].ret.fp = Get(lastSet, clients[c].key, clients[c].ret.at))
  /\ [](/\ Visible(storeData, now) = Visible(lastSet, now)
        /\ \A k \in Visible(lastSet, now) : storeData[k] = lastSet[k])
  /\ [][SweepStep =>
          \A k \in DOMAIN storeData \ DOMAIN storeData' :
            now - storeData[k].timestamp > TTL]_vars

\* a Get has looked up a key whose entry a sweep has deleted, and reports not
\* found, as it would with the entry still in the map
C29_Witness ==
  \E c \in Clients :
    /\ GetDone(c)
    /\ clients[c].key \in DOMAIN lastSet
    /\ clients[c].key \notin DOMAIN storeData
    /\ clients[c].ret.fp = "nil"
    /\ clients[c].ret.at = now

====
